---- MODULE Spec2Model ----
(***************************************************************************)
(* A model of the clunk order book (src/src/orderbook) and of the Coinbase *)
(* feed handler that drives it (src/src/feed_handlers).                    *)
(*                                                                         *)
(* Prices are ticks (integers), sizes are integer lots.  A price arrives   *)
(* on the wire as a decimal string; a string is modelled as the pair       *)
(* <<tick, format>>, two formats of one tick being two spellings of the    *)
(* same number ("100" and "100.0").  An order id is a triple               *)
(* <<kind, n, format>>: <<"ord", n, 0>> is an id given by the feed, and    *)
(* <<"bid", tick, format>>, <<"ask", tick, format>> are the ids the        *)
(* handler derives from a price string.                                    *)
(*                                                                         *)
(* Order objects are held through std::shared_ptr by the id index and by   *)
(* the price level.  The model keeps them in a heap of references: an      *)
(* object lives exactly as long as something refers to it.                 *)
(***************************************************************************)
EXTENDS Integers, Sequences, FiniteSets, TLC

\* ------------------------------------------------------------------ bounds
MaxIds == 2
MaxPrice == 2
MaxSize == 2
MaxOrders == 2
MaxSnapLen == 2
MaxArrivals == 1
MaxFrames == 2
MaxBooks == 3
MaxReaders == 2
MaxSends == 3

\* numeric_limits<double>::max(), the empty-ask sentinel
DBL_MAX == 1000000

\* ConsoleVisualizer::depth_
Depth == 10

BUY == "BUY"
SELL == "SELL"
OrderSide == {BUY, SELL}

Prices == 1..MaxPrice
Formats == {0, 1}
PriceStrs == Prices \X Formats
Sizes == 1..MaxSize
NewSizes == 0..MaxSize
OrderIds == {<<"ord", n, 0>> : n \in 1..MaxIds}
NoId == <<"none", 0, 0>>

BTC == "BTC-USD"
ETH == "ETH-USD"
ProductIds == {BTC, ETH}

\* ----------------------------------------------------------------- helpers
Put(f, k, v) == [x \in (DOMAIN f) \cup {k} |-> IF x = k THEN v ELSE f[x]]

Drop(f, k) == [x \in (DOMAIN f) \ {k} |-> f[x]]

Range(f) == {f[x] : x \in DOMAIN f}

Max(S) == CHOOSE x \in S : \A y \in S : y <= x

Min(S) == CHOOSE x \in S : \A y \in S : x <= y

SeqsUpTo(S, n) == UNION {[1..k -> S] : k \in 0..n}

\* std::stod on a price string
stod(s) == s[1]

\* ------------------------------------------------------------------- Order
\* Order::Order
Order(id, side, price, size) ==
    [id |-> id, side |-> side, price |-> price, size |-> size]

\* reduceSize without the test against the order's size
Order_reduceSize_Unchecked(order, amount) ==
    IF amount <= 0
    THEN [order |-> order, ok |-> FALSE]
    ELSE [order |-> [order EXCEPT !.size = @ - amount], ok |-> TRUE]

\* Order::reduceSize
Order_reduceSize(order, amount) ==
    IF amount <= 0 \/ amount > order.size
    THEN [order |-> order, ok |-> FALSE]
    ELSE [order |-> [order EXCEPT !.size = @ - amount], ok |-> TRUE]

\* ------------------------------------------------------------- PriceLevel
\* PriceLevel::PriceLevel
PriceLevel(price) == [price |-> price, total_size |-> 0, orders |-> <<>>]

\* PriceLevel::isEmpty
PriceLevel_isEmpty(level) == DOMAIN level.orders = {}

\* addOrder without the test for an id the level already holds
PriceLevel_addOrder_NoDuplicateTest(level, heap, ref) ==
    LET o == heap[ref] IN
    IF o.price # level.price
    THEN [level |-> level, ok |-> FALSE]
    ELSE [level |-> [level EXCEPT !.orders = Put(@, o.id, ref),
                                  !.total_size = @ + o.size],
          ok |-> TRUE]

\* PriceLevel::addOrder; ref is the shared_ptr, heap gives the object.
\* Prices are whole ticks, so two prices differ by more than epsilon
\* exactly when they differ.
PriceLevel_addOrder(level, heap, ref) ==
    LET o == heap[ref] IN
    IF o.price # level.price
    THEN [level |-> level, ok |-> FALSE]
    ELSE IF o.id \in DOMAIN level.orders
    THEN [level |-> level, ok |-> FALSE]
    ELSE [level |-> [level EXCEPT !.orders = Put(@, o.id, ref),
                                  !.total_size = @ + o.size],
          ok |-> TRUE]

\* PriceLevel::removeOrder
PriceLevel_removeOrder(level, heap, order_id) ==
    IF order_id \notin DOMAIN level.orders
    THEN [level |-> level, ok |-> FALSE]
    ELSE [level |-> [level EXCEPT
                       !.total_size = @ - heap[level.orders[order_id]].size,
                       !.orders = Drop(@, order_id)],
          ok |-> TRUE]

\* updateOrder that sets the order's size and forgets the level's total
PriceLevel_updateOrder_StaleTotal(level, heap, order_id, new_size) ==
    IF order_id \notin DOMAIN level.orders
    THEN [level |-> level, heap |-> heap, ok |-> FALSE]
    ELSE [level |-> level,
          heap |-> [heap EXCEPT ![level.orders[order_id]].size = new_size],
          ok |-> TRUE]

\* PriceLevel::updateOrder; the order object is written through the
\* level's pointer, so the heap changes too
PriceLevel_updateOrder(level, heap, order_id, new_size) ==
    IF order_id \notin DOMAIN level.orders
    THEN [level |-> level, heap |-> heap, ok |-> FALSE]
    ELSE LET ref == level.orders[order_id]
             old_size == heap[ref].size
         IN [level |-> [level EXCEPT
                          !.total_size = @ - old_size + new_size],
             heap |-> [heap EXCEPT ![ref].size = new_size],
             ok |-> TRUE]

\* --------------------------------------------------------------- OrderBook
\* OrderBook::OrderBook: no level, no order
EmptyBook ==
    [heap |-> <<>>, orders |-> <<>>, bid_levels |-> <<>>, ask_levels |-> <<>>]

\* the references a book holds: the index and every level's map
LiveRefs(book) ==
    Range(book.orders)
      \cup UNION {Range(book.bid_levels[p].orders) : p \in DOMAIN book.bid_levels}
      \cup UNION {Range(book.ask_levels[p].orders) : p \in DOMAIN book.ask_levels}

\* shared_ptr: an Order nobody refers to any more is destroyed
Release(book) ==
    [book EXCEPT !.heap = [r \in (DOMAIN book.heap) \cap LiveRefs(book)
                             |-> book.heap[r]]]

\* std::make_shared<Order>: a reference no live object has
NewRef(book, id) ==
    <<id, Min({k \in 0..(Cardinality(DOMAIN book.heap) + 1) :
                 <<id, k>> \notin DOMAIN book.heap})>>

\* the side's level map
Levels(book, side) == IF side = BUY THEN book.bid_levels ELSE book.ask_levels

SetLevels(book, side, levels) ==
    IF side = BUY THEN [book EXCEPT !.bid_levels = levels]
                  ELSE [book EXCEPT !.ask_levels = levels]

\* addOrder without the duplicate check on the index
OrderBook_addOrder_Unchecked(book, order) ==
    LET ref == NewRef(book, order.id)
        heap == Put(book.heap, ref, order)
        levels == Levels(book, order.side)
        level == IF order.price \in DOMAIN levels
                 THEN levels[order.price]
                 ELSE PriceLevel(order.price)
        added == PriceLevel_addOrder(level, heap, ref).level
        b1 == SetLevels([book EXCEPT !.heap = heap], order.side,
                        Put(levels, order.price, added))
    IN [book |-> Release([b1 EXCEPT !.orders = Put(@, order.id, ref)]),
        ok |-> TRUE, notified |-> 1]

\* addOrder that, for an id already in the index, still counts the order's
\* size into the level at its price before refusing it
OrderBook_addOrder_CountsDuplicate(book, order) ==
    LET levels == Levels(book, order.side) IN
    IF order.id \in DOMAIN book.orders
    THEN IF order.price \in DOMAIN levels
         THEN [book |-> SetLevels(book, order.side,
                            [levels EXCEPT ![order.price].total_size = @ + order.size]),
               ok |-> FALSE, notified |-> 0]
         ELSE [book |-> book, ok |-> FALSE, notified |-> 0]
    ELSE OrderBook_addOrder_Unchecked(book, order)

\* OrderBook::addOrder: the book after the call, what the call returns, and
\* how many times it ran notifyUpdate (the update callback being set)
OrderBook_addOrder(book, order) ==
    IF order.id \in DOMAIN book.orders
    THEN [book |-> book, ok |-> FALSE, notified |-> 0]
    ELSE LET ref == NewRef(book, order.id)
             heap == Put(book.heap, ref, order)
             levels == Levels(book, order.side)
             level == IF order.price \in DOMAIN levels
                      THEN levels[order.price]
                      ELSE PriceLevel(order.price)
             added == PriceLevel_addOrder(level, heap, ref).level
             b1 == SetLevels([book EXCEPT !.heap = heap], order.side,
                             Put(levels, order.price, added))
         IN [book |-> Release([b1 EXCEPT !.orders = Put(@, order.id, ref)]),
             ok |-> TRUE, notified |-> 1]

\* removeOrder that leaves the id in the index
OrderBook_removeOrder_KeepsIndex(book, order_id) ==
    IF order_id \notin DOMAIN book.orders
    THEN [book |-> book, ok |-> FALSE, notified |-> 0]
    ELSE LET order == book.heap[book.orders[order_id]]
             levels == Levels(book, order.side)
         IN [book |-> IF order.price \in DOMAIN levels
                      THEN LET removed == PriceLevel_removeOrder(
                                   levels[order.price], book.heap, order_id).level
                           IN SetLevels(book, order.side,
                                  IF PriceLevel_isEmpty(removed)
                                  THEN Drop(levels, order.price)
                                  ELSE Put(levels, order.price, removed))
                      ELSE book,
             ok |-> TRUE, notified |-> 1]

\* removeOrder that never evicts the level
OrderBook_removeOrder_KeepsLevel(book, order_id) ==
    IF order_id \notin DOMAIN book.orders
    THEN [book |-> book, ok |-> FALSE, notified |-> 0]
    ELSE LET order == book.heap[book.orders[order_id]]
             levels == Levels(book, order.side)
             b1 == IF order.price \in DOMAIN levels
                   THEN SetLevels(book, order.side,
                            Put(levels, order.price,
                                PriceLevel_removeOrder(
                                    levels[order.price], book.heap, order_id).level))
                   ELSE book
         IN [book |-> Release([b1 EXCEPT !.orders = Drop(@, order_id)]),
             ok |-> TRUE, notified |-> 1]

\* OrderBook::removeOrder
OrderBook_removeOrder(book, order_id) ==
    IF order_id \notin DOMAIN book.orders
    THEN [book |-> book, ok |-> FALSE, notified |-> 0]
    ELSE LET order == book.heap[book.orders[order_id]]
             levels == Levels(book, order.side)
             b1 == IF order.price \in DOMAIN levels
                   THEN LET removed == PriceLevel_removeOrder(
                                levels[order.price], book.heap, order_id).level
                        IN SetLevels(book, order.side,
                               IF PriceLevel_isEmpty(removed)
                               THEN Drop(levels, order.price)
                               ELSE Put(levels, order.price, removed))
                   ELSE book
         IN [book |-> Release([b1 EXCEPT !.orders = Drop(@, order_id)]),
             ok |-> TRUE, notified |-> 1]

\* OrderBook::modifyOrder
OrderBook_modifyOrder(book, order_id, new_size) ==
    IF order_id \notin DOMAIN book.orders
    THEN [book |-> book, ok |-> FALSE, notified |-> 0]
    ELSE LET order == book.heap[book.orders[order_id]]
             levels == Levels(book, order.side)
         IN IF order.price \in DOMAIN levels
            THEN LET upd == PriceLevel_updateOrder(
                                levels[order.price], book.heap, order_id, new_size)
                 IN [book |-> SetLevels([book EXCEPT !.heap = upd.heap],
                                        order.side,
                                        Put(levels, order.price, upd.level)),
                     ok |-> upd.ok,
                     notified |-> IF upd.ok THEN 1 ELSE 0]
            ELSE [book |-> book, ok |-> FALSE, notified |-> 0]

\* OrderBook::getOrder: the order object, or NoOrder for nullptr
NoOrder == [id |-> NoId, side |-> BUY, price |-> 0, size |-> 0]

OrderBook_getOrder(book, order_id) ==
    IF order_id \in DOMAIN book.orders
    THEN book.heap[book.orders[order_id]]
    ELSE NoOrder

\* OrderBook::getOrderCount
OrderBook_getOrderCount(book) == Cardinality(DOMAIN book.orders)

\* OrderBook::getBidLevelCount
OrderBook_getBidLevelCount(book) == Cardinality(DOMAIN book.bid_levels)

\* OrderBook::getAskLevelCount
OrderBook_getAskLevelCount(book) == Cardinality(DOMAIN book.ask_levels)

\* the first key of the bid map were it ascending
OrderBook_getBestBid_Lowest(book) ==
    IF DOMAIN book.bid_levels # {} THEN Min(DOMAIN book.bid_levels) ELSE 0

\* OrderBook::getBestBid: first key of the descending map, 0.0 when empty
OrderBook_getBestBid(book) ==
    IF DOMAIN book.bid_levels # {} THEN Max(DOMAIN book.bid_levels) ELSE 0

\* OrderBook::getBestAsk: first key of the ascending map
OrderBook_getBestAsk(book) ==
    IF DOMAIN book.ask_levels # {} THEN Min(DOMAIN book.ask_levels) ELSE DBL_MAX

\* the arithmetic of OrderBook::getSpread on the two best prices it read
SpreadOf(best_bid, best_ask) ==
    IF best_bid > 0 /\ best_ask < DBL_MAX THEN best_ask - best_bid ELSE 0

\* OrderBook::getSpread: getBestBid, then getBestAsk, each under the mutex
OrderBook_getSpread(book) ==
    SpreadOf(OrderBook_getBestBid(book), OrderBook_getBestAsk(book))

\* the arithmetic of OrderBook::getMidpointPrice, in half ticks
MidpointOf(best_bid, best_ask) ==
    IF best_bid > 0 /\ best_ask < DBL_MAX THEN best_bid + best_ask ELSE 0

\* OrderBook::getMidpointPrice
OrderBook_getMidpointPrice(book) ==
    MidpointOf(OrderBook_getBestBid(book), OrderBook_getBestAsk(book))

\* the first depth entries of a level map, in the map's iteration order
RECURSIVE WalkLevels(_, _, _, _)
WalkLevels(levels, keys, descending, depth) ==
    IF keys = {} \/ depth <= 0 THEN <<>>
    ELSE LET p == IF descending THEN Max(keys) ELSE Min(keys)
         IN <<(<<p, levels[p].total_size>>)>>
              \o WalkLevels(levels, keys \ {p}, descending, depth - 1)

\* the walk of the bid map were it ascending
OrderBook_getBidLevels_Ascending(book, depth) ==
    WalkLevels(book.bid_levels, DOMAIN book.bid_levels, FALSE, depth)

\* OrderBook::getBidLevels
OrderBook_getBidLevels(book, depth) ==
    WalkLevels(book.bid_levels, DOMAIN book.bid_levels, TRUE, depth)

\* OrderBook::getAskLevels
OrderBook_getAskLevels(book, depth) ==
    WalkLevels(book.ask_levels, DOMAIN book.ask_levels, FALSE, depth)

\* processL3Update whose done takes the event's side and price for the
\* order's and removes nothing when they differ
OrderBook_processL3Update_DoneBySide(book, type, order_id, side, price, size) ==
    IF type \in {"open", "received"}
    THEN OrderBook_addOrder(book, Order(order_id, side, price, size)).book
    ELSE IF type \in {"match", "change"}
    THEN OrderBook_modifyOrder(book, order_id, size).book
    ELSE IF type = "done"
    THEN IF OrderBook_getOrder(book, order_id).side = side
              /\ OrderBook_getOrder(book, order_id).price = price
         THEN OrderBook_removeOrder(book, order_id).book
         ELSE book
    ELSE book

\* the call OrderBook::processL3Update makes for an event type
L3Call(book, type, order_id, side, price, size) ==
    IF type \in {"open", "received"}
    THEN OrderBook_addOrder(book, Order(order_id, side, price, size))
    ELSE IF type \in {"match", "change"}
    THEN OrderBook_modifyOrder(book, order_id, size)
    ELSE IF type = "done"
    THEN OrderBook_removeOrder(book, order_id)
    ELSE [book |-> book, ok |-> FALSE, notified |-> 0]

\* OrderBook::processL3Update
OrderBook_processL3Update(book, type, order_id, side, price, size) ==
    L3Call(book, type, order_id, side, price, size).book

\* --------------------------------------------------------- CoinbaseHandler
\* One entry of a snapshot's "bids" or "asks" array: [price, size, id?].
\* An entry that is not an array of strings makes the parse throw.
SnapEntries ==
    [price : Prices \X {0}, size : Sizes, id : OrderIds \cup {NoId}, bad : {FALSE}]

BadEntry == [price |-> <<0, 0>>, size |-> 0, id |-> NoId, bad |-> TRUE]

\* CoinbaseHandler::getOrderBook: the registered book, or none
HasBook(books, symbol) == symbol \in DOMAIN books

\* order_id of a snapshot entry: the third element, or "bid-"/"ask-" + price
SnapshotOrderId(entry, side) ==
    IF entry.id # NoId THEN entry.id
    ELSE <<(IF side = BUY THEN "bid" ELSE "ask"), entry.price[1], entry.price[2]>>

\* an iteration that adds the entry as a bid whichever array it is in
SnapshotEntry_AsBid(book, side, entry) ==
    OrderBook_addOrder(book,
        Order(SnapshotOrderId(entry, side), BUY, stod(entry.price), entry.size)).book

\* one iteration of a loop of processSnapshot
SnapshotEntry(book, side, entry) ==
    OrderBook_addOrder(book,
        Order(SnapshotOrderId(entry, side), side, stod(entry.price), entry.size)).book

\* the entries of a snapshot in the order the two loops visit them
SnapshotEntries(j) ==
    [i \in 1..Len(j.bids) |-> [side |-> BUY, entry |-> j.bids[i]]]
      \o [i \in 1..Len(j.asks) |-> [side |-> SELL, entry |-> j.asks[i]]]

\* the loops of processSnapshot: an exception ends both
RECURSIVE SnapshotLoop(_, _)
SnapshotLoop(book, entries) ==
    IF entries = <<>> THEN book
    ELSE IF Head(entries).entry.bad THEN book
    ELSE SnapshotLoop(SnapshotEntry(book, Head(entries).side, Head(entries).entry),
                      Tail(entries))

\* CoinbaseHandler::processSnapshot
CoinbaseHandler_processSnapshot(books, j) ==
    IF "product_id" \in j.missing THEN books
    ELSE IF ~HasBook(books, j.product_id) THEN books
    ELSE IF "bids" \in j.missing \/ "asks" \in j.missing THEN books
    ELSE [books EXCEPT ![j.product_id] = SnapshotLoop(@, SnapshotEntries(j))]

\* CoinbaseHandler::convertOrderSide
convertOrderSide(side) == IF side = "buy" THEN BUY ELSE SELL

\* CoinbaseHandler::processL3Update
CoinbaseHandler_processL3Update(books, j) ==
    IF "product_id" \in j.missing THEN books
    ELSE IF ~HasBook(books, j.product_id) THEN books
    ELSE LET book == books[j.product_id] IN
    IF j.type \in {"received", "open"}
    THEN IF {"order_id", "side", "price", "size"} \cap j.missing # {} \/ j.malformed
         THEN books
         ELSE [books EXCEPT ![j.product_id] =
                 OrderBook_processL3Update(book, "open", j.order_id,
                     convertOrderSide(j.side), stod(j.price), j.size)]
    ELSE IF j.type = "done"
    THEN IF "order_id" \in j.missing \/ j.malformed
         THEN books
         ELSE [books EXCEPT ![j.product_id] =
                 OrderBook_processL3Update(book, "done", j.order_id, BUY, 0, 0)]
    ELSE IF j.type = "match"
    THEN IF {"maker_order_id", "size"} \cap j.missing # {} \/ j.malformed
         THEN books
         ELSE LET maker_order == OrderBook_getOrder(book, j.maker_order_id)
                  new_size == maker_order.size - j.size
              IN IF maker_order = NoOrder THEN books
                 ELSE IF new_size <= 0
                 THEN [books EXCEPT ![j.product_id] =
                         OrderBook_processL3Update(book, "done", j.maker_order_id,
                             maker_order.side, 0, 0)]
                 ELSE [books EXCEPT ![j.product_id] =
                         OrderBook_processL3Update(book, "change", j.maker_order_id,
                             maker_order.side, maker_order.price, new_size)]
    ELSE IF j.type = "change"
    THEN IF {"order_id", "new_size"} \cap j.missing # {} \/ j.malformed
         THEN books
         ELSE LET order == OrderBook_getOrder(book, j.order_id)
              IN IF order = NoOrder THEN books
                 ELSE [books EXCEPT ![j.product_id] =
                         OrderBook_processL3Update(book, "change", j.order_id,
                             order.side, order.price, j.new_size)]
    ELSE books

\* OrderBook::clear: removes all state
OrderBook_clear(book) ==
    EmptyBook

\* OrderBook::getOrdersByPrice: the ids of the orders of the level at a
\* price on a side
OrderBook_getOrdersByPrice(book, price, side) ==
    IF price \in DOMAIN Levels(book, side)
    THEN DOMAIN Levels(book, side)[price].orders
    ELSE {}

\* OrderBook::removeOrdersByPrice: every order of the level goes, and the
\* level with the last of them
RECURSIVE RemoveAll(_, _)
RemoveAll(book, ids) ==
    IF ids = {} THEN book
    ELSE LET id == CHOOSE x \in ids : TRUE
         IN RemoveAll(OrderBook_removeOrder(book, id).book, ids \ {id})

OrderBook_removeOrdersByPrice(book, price, side) ==
    RemoveAll(book, OrderBook_getOrdersByPrice(book, price, side))

\* OrderBook::updateOrderSize: the order's size and its level's total
OrderBook_updateOrderSize(book, order_id, size) ==
    OrderBook_modifyOrder(book, order_id, size).book

\* One element of an l2update's "changes": [side, price, size].  An element
\* that is not an array of strings makes the parse throw.
L2Changes == [side : {"buy", "sell"}, price : PriceStrs, size : NewSizes, bad : {FALSE}]

BadChange == [side |-> "buy", price |-> <<0, 0>>, size |-> 0, bad |-> TRUE]

\* the order id of a change: "bid-"/"ask-" + the price string
L2OrderId(side, price) ==
    <<(IF side = BUY THEN "bid" ELSE "ask"), price[1], price[2]>>

\* one iteration of the loop of processL2Update
L2Change(book, change) ==
    LET side == IF change.side = "buy" THEN BUY ELSE SELL
        price == stod(change.price)
        order_id == L2OrderId(side, change.price)
        existing_orders == OrderBook_getOrdersByPrice(book, price, side)
    IN IF change.size <= 0
       THEN OrderBook_removeOrdersByPrice(book, price, side)
       ELSE IF existing_orders = {}
       THEN OrderBook_addOrder(book, Order(order_id, side, price, change.size)).book
       ELSE IF order_id \in existing_orders
       THEN OrderBook_updateOrderSize(book, order_id, change.size)
       ELSE book

\* the loop of processL2Update: an exception ends it
RECURSIVE L2Loop(_, _)
L2Loop(book, changes) ==
    IF changes = <<>> THEN book
    ELSE IF Head(changes).bad THEN book
    ELSE L2Loop(L2Change(book, Head(changes)), Tail(changes))

\* processL2Update that applies the changes to every registered book
CoinbaseHandler_processL2Update_AllBooks(books, j) ==
    IF "product_id" \in j.missing \/ "changes" \in j.missing THEN books
    ELSE [symbol \in DOMAIN books |-> L2Loop(books[symbol], j.changes)]

\* CoinbaseHandler::processL2Update
CoinbaseHandler_processL2Update(books, j) ==
    IF "product_id" \in j.missing \/ "changes" \in j.missing THEN books
    ELSE IF ~HasBook(books, j.product_id) THEN books
    ELSE [books EXCEPT ![j.product_id] = L2Loop(@, j.changes)]

\* the ids processTicker makes: "bid-"/"ask-" + the sequence number
TickerOrderId(side, sequence) ==
    <<(IF side = BUY THEN "bid" ELSE "ask"), sequence, 0>>

\* CoinbaseHandler::processTicker
CoinbaseHandler_processTicker(books, j) ==
    IF ~HasBook(books, j.product_id) THEN books
    ELSE IF j.malformed THEN books
    ELSE LET bid_order == Order(TickerOrderId(BUY, j.sequence), BUY,
                                stod(j.best_bid), j.best_bid_size)
             ask_order == Order(TickerOrderId(SELL, j.sequence), SELL,
                                stod(j.best_ask), j.best_ask_size)
             cleared == OrderBook_clear(books[j.product_id])
         IN [books EXCEPT ![j.product_id] =
                OrderBook_addOrder(OrderBook_addOrder(cleared, bid_order).book,
                                   ask_order).book]

\* handleMessage that empties the books on an error message
CoinbaseHandler_handleMessage_ErrorClears(books, j) ==
    IF j.type = "snapshot" THEN CoinbaseHandler_processSnapshot(books, j)
    ELSE IF j.type = "l2update" THEN CoinbaseHandler_processL2Update(books, j)
    ELSE IF j.type = "ticker"
    THEN IF {"product_id", "best_bid", "best_ask", "best_bid_size", "best_ask_size"}
               \cap j.missing = {}
         THEN CoinbaseHandler_processTicker(books, j)
         ELSE books
    ELSE IF j.type \in {"l3update", "received", "open", "done", "match", "change"}
    THEN CoinbaseHandler_processL3Update(books, j)
    ELSE IF j.type = "error" THEN [symbol \in DOMAIN books |-> EmptyBook]
    ELSE books

\* CoinbaseHandler::handleMessage
CoinbaseHandler_handleMessage(books, j) ==
    IF j.type = "snapshot" THEN CoinbaseHandler_processSnapshot(books, j)
    ELSE IF j.type = "l2update" THEN CoinbaseHandler_processL2Update(books, j)
    ELSE IF j.type = "ticker"
    THEN IF {"product_id", "best_bid", "best_ask", "best_bid_size", "best_ask_size"}
               \cap j.missing = {}
         THEN CoinbaseHandler_processTicker(books, j)
         ELSE books
    ELSE IF j.type \in {"l3update", "received", "open", "done", "match", "change"}
    THEN CoinbaseHandler_processL3Update(books, j)
    ELSE books

\* ------------------------------------------------------------------- state
VARIABLES
    order_books,   \* CoinbaseHandler::order_books_: symbol -> OrderBook
    last,          \* the call or message handled last, and what it returned
    inflight,      \* the snapshot the feed thread is applying, entry by entry
    view,          \* what the reader thread's last query returned
    session        \* the websocket client, its wire and the application's loop

vars == <<order_books, last, inflight, view, session>>

\* a call or frame: what it was and whether it returned true (for a frame:
\* whether it named a resting order; for a snapshot: whether it reached the
\* book)
Call(op, ok) == [op |-> op, ok |-> ok]

NoCall == Call("none", FALSE)

\* a call on the book, with the number of times the update callback ran
\* during it
Notify(call, n) == [op |-> call.op, ok |-> call.ok, notified |-> n]

NoSnapshot == [active |-> FALSE]

NoView == [call |-> "none", partial |-> FALSE]

\* WebSocketClient::WebSocketClient: not running, not connected.  io is
\* where the I/O thread is, main where the application's loop is
\* (it starts once the first connection is up), wire the
\* frames that arrived and were not read yet (each with its arrival
\* number), log the arrival numbers of the frames handed to the handler,
\* subscribed the symbols a subscribe message was sent for on the current
\* connection, lost whether a connection that was up has ended.
NoSession ==
    [running |-> FALSE, connected |-> FALSE, io |-> "none", main |-> "start",
     wire |-> <<>>, arrived |-> 0, log |-> <<>>, subscribed |-> {}, lost |-> FALSE]

\* The handler has subscribed to BTC on a connected session (subscribe
\* creates the empty book); nothing is registered for ETH.
Init ==
    /\ order_books = (BTC :> EmptyBook)
    /\ last = NoCall
    /\ inflight = NoSnapshot
    /\ view = NoView
    /\ session = NoSession

\* the book the application holds a handle to (main.cpp: getOrderBook(symbol))
TheBook == order_books[BTC]

Resting(book) == DOMAIN book.orders

\* every id a call may name: the feed's ids and whatever rests in the book
CallIds == OrderIds \cup Resting(TheBook)

\* the model stops growing a book at MaxOrders resting orders
Room(book, n) == OrderBook_getOrderCount(book) + n <= MaxOrders

\* ------------------------------------------------- calls on the order book
AddOrder(id, side, price, size) ==
    /\ ~inflight.active
    /\ Room(TheBook, 1) \/ id \in Resting(TheBook)
    /\ LET r == OrderBook_addOrder(TheBook, Order(id, side, price, size)) IN
       /\ order_books' = [order_books EXCEPT ![BTC] = r.book]
       /\ last' = Notify(Call("addOrder", r.ok), r.notified)
    /\ UNCHANGED <<inflight, view, session>>

RemoveOrder(id) ==
    /\ ~inflight.active
    /\ LET r == OrderBook_removeOrder(TheBook, id) IN
       /\ order_books' = [order_books EXCEPT ![BTC] = r.book]
       /\ last' = Notify(Call("removeOrder", r.ok), r.notified)
    /\ UNCHANGED <<inflight, view, session>>

ModifyOrder(id, new_size) ==
    /\ ~inflight.active
    /\ LET r == OrderBook_modifyOrder(TheBook, id, new_size) IN
       /\ order_books' = [order_books EXCEPT ![BTC] = r.book]
       /\ last' = Notify(Call("modifyOrder", r.ok), r.notified)
    /\ UNCHANGED <<inflight, view, session>>

L3Types == {"open", "received", "match", "change", "done", "other"}

ProcessL3Update(type, id, side, price, size) ==
    /\ ~inflight.active
    /\ type \in {"open", "received"} => Room(TheBook, 1) \/ id \in Resting(TheBook)
    /\ order_books' = [order_books EXCEPT ![BTC] =
                         OrderBook_processL3Update(@, type, id, side, price, size)]
    /\ last' = Notify(Call(type, id \in Resting(TheBook)),
                      L3Call(TheBook, type, id, side, price, size).notified)
    /\ UNCHANGED <<inflight, view, session>>

\* --------------------------------------------------- frames from the feed
\* what can be wrong with a frame: one field absent, or a value that does
\* not parse
L3Fields == {"product_id", "order_id", "maker_order_id", "side", "price",
             "size", "new_size"}

Defects(fields) ==
    {[missing |-> {}, malformed |-> FALSE], [missing |-> {}, malformed |-> TRUE]}
      \cup {[missing |-> {f}, malformed |-> FALSE] : f \in fields}

L3Message(type, product, id, side, price, size, defect) ==
    [type |-> type, product_id |-> product, order_id |-> id,
     maker_order_id |-> id, side |-> side, price |-> price, size |-> size,
     new_size |-> size, missing |-> defect.missing, malformed |-> defect.malformed]

SnapshotMessage(product, bids, asks, missing) ==
    [type |-> "snapshot", product_id |-> product, bids |-> bids, asks |-> asks,
     missing |-> missing, malformed |-> FALSE]

\* the frame gets as far as the book
Delivered(j) == j.missing = {} /\ ~j.malformed /\ HasBook(order_books, j.product_id)

HandleL3(j) ==
    /\ ~inflight.active
    /\ order_books' = CoinbaseHandler_handleMessage(order_books, j)
    /\ last' = Call("feed_" \o j.type,
                  Delivered(j) /\ j.order_id \in Resting(order_books[j.product_id]))
    /\ UNCHANGED <<inflight, view, session>>

\* The frames of one type the feed may send: every well-formed frame for
\* a symbol, and one frame for each way of being defective.
NoDefect == [missing |-> {}, malformed |-> FALSE]

\* and one well-formed frame for a symbol nobody subscribed to.
DefectiveFrames(type, fields) ==
    {L3Message(type, BTC, CHOOSE id \in OrderIds : TRUE, "buy", <<1, 0>>, 1, defect) :
        defect \in Defects(fields) \ {NoDefect}}
      \cup {L3Message(type, ETH, CHOOSE id \in OrderIds : TRUE, "buy", <<1, 0>>, 1,
                      NoDefect)}

OpenFrames(type) ==
    {L3Message(type, BTC, id, side, <<price, 0>>, size, NoDefect) :
        id \in OrderIds, side \in {"buy", "sell"}, price \in Prices, size \in Sizes}
      \cup {L3Message(type, BTC, CHOOSE id \in OrderIds : TRUE, "sell", <<1, 1>>, 1,
                      NoDefect)}
      \cup DefectiveFrames(type, {"product_id", "order_id", "side", "price", "size"})

DoneFrames ==
    {L3Message("done", BTC, id, "buy", <<1, 0>>, 0, NoDefect) :
        id \in CallIds}
      \cup DefectiveFrames("done", {"product_id", "order_id"})

MatchFrames ==
    {L3Message("match", BTC, id, "buy", <<1, 0>>, size, NoDefect) :
        id \in CallIds, size \in Sizes}
      \cup DefectiveFrames("match", {"product_id", "maker_order_id", "size"})

ChangeFrames ==
    {L3Message("change", BTC, id, "buy", <<1, 0>>, size, NoDefect) :
        id \in CallIds, size \in NewSizes}
      \cup DefectiveFrames("change", {"product_id", "order_id", "new_size"})

HandleOpen(j) ==
    /\ Room(TheBook, 1) \/ j.order_id \in Resting(TheBook)
    /\ HandleL3(j)

HandleReceived(j) ==
    /\ Room(TheBook, 1) \/ j.order_id \in Resting(TheBook)
    /\ HandleL3(j)

HandleDone(j) == HandleL3(j)

HandleMatch(j) == HandleL3(j)

HandleChange(j) == HandleL3(j)

\* heartbeat, error, subscriptions, l3update and unknown types
OtherTypes == {"heartbeat", "error", "subscriptions", "l3update", "unknown"}

HandleOther(type, product) ==
    /\ ~inflight.active
    /\ order_books' = CoinbaseHandler_handleMessage(order_books,
                          L3Message(type, product, NoId, "buy", <<1, 0>>, 0, NoDefect))
    /\ last' = Call("feed_other", FALSE)
    /\ UNCHANGED <<inflight, view, session>>

\* the snapshots of at most n entries
Snapshots(n) ==
    UNION {([1..kk[1] -> SnapEntries \cup {BadEntry}]
              \X [1..kk[2] -> SnapEntries \cup {BadEntry}]) :
             kk \in {x \in (0..n) \X (0..n) : x[1] + x[2] <= n}}

SnapshotRoom ==
    IF MaxOrders - OrderBook_getOrderCount(TheBook) < MaxSnapLen
    THEN MaxOrders - OrderBook_getOrderCount(TheBook)
    ELSE MaxSnapLen

HandleSnapshot(j) ==
    /\ ~inflight.active
    /\ order_books' = CoinbaseHandler_handleMessage(order_books, j)
    /\ last' = Call("feed_snapshot", Delivered(j))
    /\ UNCHANGED <<inflight, view, session>>

\* the snapshot frames: every well-formed one, and the empty one with a
\* field absent
SnapshotFrames ==
    {SnapshotMessage(BTC, s[1], s[2], {}) : s \in Snapshots(SnapshotRoom)}
      \cup {SnapshotMessage(BTC, <<>>, <<>>, {f}) : f \in {"product_id", "bids", "asks"}}
      \cup {SnapshotMessage(ETH, <<>>, <<>>, {})}

\* the calls an application makes on the book it holds
Next ==
    \/ \E id \in CallIds, side \in OrderSide, price \in Prices, size \in Sizes :
         AddOrder(id, side, price, size)
    \/ \E id \in CallIds : RemoveOrder(id)
    \/ \E id \in CallIds, new_size \in NewSizes : ModifyOrder(id, new_size)
    \/ \E type \in L3Types, id \in CallIds, side \in OrderSide,
          price \in Prices, size \in Sizes :
         ProcessL3Update(type, id, side, price, size)

Spec == Init /\ [][Next]_vars

\* the frames the feed thread handles, one whole frame at a time
FeedNext ==
    \/ \E j \in OpenFrames("open") : HandleOpen(j)
    \/ \E j \in OpenFrames("received") : HandleReceived(j)
    \/ \E j \in DoneFrames : HandleDone(j)
    \/ \E j \in MatchFrames : HandleMatch(j)
    \/ \E j \in ChangeFrames : HandleChange(j)
    \/ \E type \in OtherTypes : HandleOther(type, BTC)
    \/ \E j \in SnapshotFrames : HandleSnapshot(j)

SpecFeed == Init /\ [][FeedNext]_vars

\* ------------------------------------- the feed thread against a reader
\* processSnapshot takes the book's mutex once per entry, inside addOrder.
\* Between two entries the mutex is free and a reader's query can run.
StartSnapshot(j) ==
    /\ ~inflight.active
    /\ Delivered(j)
    /\ SnapshotEntries(j) # <<>>
    /\ inflight' = [active |-> TRUE, frame |-> j, pos |-> 1, before |-> TheBook]
    /\ UNCHANGED <<order_books, last, view, session>>

\* one iteration of the loops: parse the entry, then addOrder under the mutex
SnapshotAddOrder ==
    /\ inflight.active
    /\ LET entries == SnapshotEntries(inflight.frame)
           e == entries[inflight.pos]
       IN IF e.entry.bad
          THEN /\ inflight' = NoSnapshot
               /\ last' = Call("feed_snapshot", TRUE)
               /\ UNCHANGED order_books
          ELSE /\ order_books' = [order_books EXCEPT
                     ![inflight.frame.product_id] = SnapshotEntry(@, e.side, e.entry)]
               /\ IF inflight.pos = Len(entries)
                  THEN /\ inflight' = NoSnapshot
                       /\ last' = Call("feed_snapshot", TRUE)
                  ELSE /\ inflight' = [inflight EXCEPT !.pos = @ + 1]
                       /\ UNCHANGED last
    /\ UNCHANGED <<view, session>>

\* the queries a consumer thread makes, each under the mutex
Queries == {"getBidLevels", "getAskLevels", "getBestBid", "getBestAsk", "getOrderCount"}

Query(call, book) ==
    CASE call = "getBidLevels" -> OrderBook_getBidLevels(book, OrderBook_getBidLevelCount(book))
      [] call = "getAskLevels" -> OrderBook_getAskLevels(book, OrderBook_getAskLevelCount(book))
      [] call = "getBestBid" -> OrderBook_getBestBid(book)
      [] call = "getBestAsk" -> OrderBook_getBestAsk(book)
      [] call = "getOrderCount" -> OrderBook_getOrderCount(book)

\* The reader's query.  partial: the query ran while a snapshot was being
\* applied and returned neither what the book showed before the snapshot
\* nor what it shows once the whole snapshot is applied.
Reader(call) ==
    /\ view' = [call |-> call,
                partial |->
                  /\ inflight.active
                  /\ Query(call, TheBook) # Query(call, inflight.before)
                  /\ Query(call, TheBook)
                       # Query(call, SnapshotLoop(inflight.before,
                                                 SnapshotEntries(inflight.frame)))]
    /\ UNCHANGED <<order_books, last, inflight, session>>

ConcNext ==
    \/ \E j \in OpenFrames("open") : HandleOpen(j)
    \/ \E j \in DoneFrames : HandleDone(j)
    \/ \E j \in SnapshotFrames : StartSnapshot(j)
    \/ SnapshotAddOrder
    \/ \E call \in Queries : Reader(call)

SpecConc == Init /\ [][ConcNext]_vars

\* ------------------------------ the level2, ticker and heartbeat channels
\* subscribe asks for level2, ticker and heartbeat: the frames that arrive
\* are snapshots without order ids, l2updates, tickers and heartbeats.
L2Message(product, changes, missing) ==
    [type |-> "l2update", product_id |-> product, changes |-> changes,
     missing |-> missing, malformed |-> FALSE]

TickerMessage(product, best_bid, best_bid_size, best_ask, best_ask_size, sequence, defect) ==
    [type |-> "ticker", product_id |-> product,
     best_bid |-> best_bid, best_bid_size |-> best_bid_size,
     best_ask |-> best_ask, best_ask_size |-> best_ask_size,
     sequence |-> sequence, missing |-> defect.missing, malformed |-> defect.malformed]

\* the changes arrays the feed may send: every single change, a change
\* followed by an element that does not parse, and a bid followed by an ask
L2ChangeLists ==
    {<<c>> : c \in L2Changes \cup {BadChange}}
      \cup {<<c, BadChange>> : c \in {x \in L2Changes : x.price[2] = 0}}
      \cup (IF MaxSnapLen >= 2
           THEN {<<c, d>> : c \in {x \in L2Changes : x.side = "buy" /\ x.price[2] = 0
                                                       /\ x.size = 1},
                            d \in {x \in L2Changes : x.side = "sell" /\ x.price[2] = 0}}
           ELSE {})

L2Frames ==
    {L2Message(BTC, changes, {}) : changes \in L2ChangeLists}
      \cup {L2Message(BTC, <<>>, {f}) : f \in {"product_id", "changes"}}
      \cup {L2Message(ETH, <<>>, {})}

TickerFrames ==
    {TickerMessage(BTC, <<bid, 0>>, bid_size, <<ask, 0>>, ask_size, sequence, NoDefect) :
        bid \in Prices, bid_size \in Sizes, ask \in Prices, ask_size \in Sizes,
        sequence \in 1..MaxIds}
      \cup {TickerMessage(BTC, <<1, 0>>, 1, <<2, 0>>, 1, 1, defect) :
             defect \in Defects({"product_id", "best_bid", "best_ask",
                                 "best_bid_size", "best_ask_size"}) \ {NoDefect}}
      \cup {TickerMessage(ETH, <<1, 0>>, 1, <<2, 0>>, 1, 1, NoDefect)}

\* the snapshots of the level2 channel: entries are [price, size]
L2SnapshotFrames ==
    {j \in SnapshotFrames :
        \A e \in Range(SnapshotEntries(j)) : e.entry.id = NoId}

\* the L3 frames with a field absent or a value that does not parse
DefectiveL3Frames ==
    {j \in OpenFrames("open") \cup OpenFrames("received") \cup DoneFrames
             \cup MatchFrames \cup ChangeFrames :
        j.missing # {} \/ j.malformed}

HandleL2Update(j) ==
    /\ ~inflight.active
    /\ Room(TheBook, Len(j.changes))
    /\ order_books' = CoinbaseHandler_handleMessage(order_books, j)
    /\ last' = Call("feed_l2update", Delivered(j))
    /\ UNCHANGED <<inflight, view, session>>

HandleTicker(j) ==
    /\ ~inflight.active
    /\ order_books' = CoinbaseHandler_handleMessage(order_books, j)
    /\ last' = Call("feed_ticker", Delivered(j))
    /\ UNCHANGED <<inflight, view, session>>

HandleL2Snapshot(j) == HandleSnapshot(j)

HandleDefective(j) == HandleL3(j)

HandleHeartbeat == HandleOther("heartbeat", BTC)

L2Next ==
    \/ \E j \in L2SnapshotFrames : HandleL2Snapshot(j)
    \/ \E j \in L2Frames : HandleL2Update(j)
    \/ \E j \in TickerFrames : HandleTicker(j)
    \/ \E j \in DefectiveL3Frames : HandleDefective(j)
    \/ HandleHeartbeat

SpecL2 == Init /\ [][L2Next]_vars

\* ------------------------------------ the visualizer against the feed
\* ConsoleVisualizer::render runs on the visualizer's thread and asks the
\* book for one value after another.  Every getter takes the mutex for
\* itself (getSpread and getMidpointPrice twice, through getBestBid and
\* getBestAsk), so the feed thread can apply a frame between any two reads.
\* view.pc is the read render makes next; view.shown says the frame in
\* view.frame is complete; view.arrived counts the frames the feed thread
\* applied since the first read of the frame being made (the model follows
\* at most MaxArrivals of them per frame).
NoFrame ==
    [bids |-> <<>>, asks |-> <<>>, best_bid |-> 0, best_ask |-> 0, spread |-> 0,
     midpoint |-> 0, order_count |-> 0, bid_level_count |-> 0, ask_level_count |-> 0]

RenderIdle ==
    [pc |-> "getBidLevels", shown |-> FALSE, tmp |-> 0, arrived |-> 0,
     frame |-> NoFrame]

InitRender ==
    /\ order_books = (BTC :> EmptyBook)
    /\ last = NoCall
    /\ inflight = NoSnapshot
    /\ view = RenderIdle
    /\ session = NoSession

\* one read of render: at pc, store value in field and go to next
RenderRead(pc, field, value, next) ==
    /\ view.pc = pc
    /\ view' = [view EXCEPT !.pc = next, !.tmp = 0, !.frame[field] = value]
    /\ UNCHANGED <<order_books, last, inflight, session>>

RenderBidLevels ==
    /\ view.pc = "getBidLevels"
    /\ view' = [pc |-> "getAskLevels", shown |-> FALSE, tmp |-> 0, arrived |-> 0,
                frame |-> [NoFrame EXCEPT
                             !.bids = OrderBook_getBidLevels(TheBook, Depth)]]
    /\ UNCHANGED <<order_books, last, inflight, session>>

RenderAskLevels ==
    RenderRead("getAskLevels", "asks", OrderBook_getAskLevels(TheBook, Depth),
               "getBestBid")

RenderBestBid ==
    RenderRead("getBestBid", "best_bid", OrderBook_getBestBid(TheBook), "getBestAsk")

RenderBestAsk ==
    RenderRead("getBestAsk", "best_ask", OrderBook_getBestAsk(TheBook), "getSpread")

\* getSpread: its getBestBid
RenderSpreadBid ==
    /\ view.pc = "getSpread"
    /\ view' = [view EXCEPT !.pc = "getSpread_ask", !.tmp = OrderBook_getBestBid(TheBook)]
    /\ UNCHANGED <<order_books, last, inflight, session>>

\* getSpread: its getBestAsk and the result
RenderSpread ==
    RenderRead("getSpread_ask", "spread",
               SpreadOf(view.tmp, OrderBook_getBestAsk(TheBook)), "getMidpointPrice")

RenderMidpointBid ==
    /\ view.pc = "getMidpointPrice"
    /\ view' = [view EXCEPT !.pc = "getMidpointPrice_ask",
                            !.tmp = OrderBook_getBestBid(TheBook)]
    /\ UNCHANGED <<order_books, last, inflight, session>>

RenderMidpoint ==
    RenderRead("getMidpointPrice_ask", "midpoint",
               MidpointOf(view.tmp, OrderBook_getBestAsk(TheBook)), "getOrderCount")

RenderOrderCount ==
    RenderRead("getOrderCount", "order_count", OrderBook_getOrderCount(TheBook),
               "getBidLevelCount")

RenderBidLevelCount ==
    RenderRead("getBidLevelCount", "bid_level_count",
               OrderBook_getBidLevelCount(TheBook), "getAskLevelCount")

\* the last read: the frame goes to the screen
RenderAskLevelCount ==
    /\ view.pc = "getAskLevelCount"
    /\ view' = [view EXCEPT !.pc = "getBidLevels", !.shown = TRUE,
                            !.frame.ask_level_count = OrderBook_getAskLevelCount(TheBook)]
    /\ UNCHANGED <<order_books, last, inflight, session>>

\* the feed thread handles a frame while the visualizer renders
FeedFrame(j) ==
    /\ view.pc = "getBidLevels" \/ view.arrived < MaxArrivals
    /\ order_books' = CoinbaseHandler_handleMessage(order_books, j)
    /\ view' = [view EXCEPT !.arrived = IF view.pc = "getBidLevels" THEN 0 ELSE @ + 1]
    /\ UNCHANGED <<last, inflight, session>>

FeedOpen(j) ==
    /\ Room(TheBook, 1) \/ j.order_id \in Resting(TheBook)
    /\ FeedFrame(j)

FeedDone(j) == FeedFrame(j)

RenderNext ==
    \/ \E j \in OpenFrames("open") : FeedOpen(j)
    \/ \E j \in DoneFrames : FeedDone(j)
    \/ RenderBidLevels
    \/ RenderAskLevels
    \/ RenderBestBid
    \/ RenderBestAsk
    \/ RenderSpreadBid
    \/ RenderSpread
    \/ RenderMidpointBid
    \/ RenderMidpoint
    \/ RenderOrderCount
    \/ RenderBidLevelCount
    \/ RenderAskLevelCount

SpecRender == InitRender /\ [][RenderNext]_vars

\* ------------------------------------------------- the websocket session
\* The application calls connect, subscribe, unsubscribe and disconnect on
\* the handler; the client's I/O thread connects, reads and reports errors;
\* the application's loop polls isConnected.
InitSession ==
    /\ order_books = <<>>
    /\ last = NoCall
    /\ inflight = NoSnapshot
    /\ view = NoView
    /\ session = NoSession

\* WebSocketClient::connect: nothing when running_ is set, else the I/O
\* thread starts and asyncConnect begins
WebSocketClient_connect(ws) ==
    IF ws.running THEN ws
    ELSE [ws EXCEPT !.running = TRUE, !.io = "connecting"]

\* WebSocketClient::disconnect: the stream is closed and the thread joined
WebSocketClient_disconnect(ws) ==
    IF ~ws.running THEN ws
    ELSE [ws EXCEPT !.running = FALSE, !.connected = FALSE, !.io = "none",
                    !.wire = <<>>, !.subscribed = {},
                    !.lost = @ \/ ws.connected]

\* WebSocketClient::handleError: connected_ is cleared, running_ is not;
\* with no operation pending, ioc_.run() returns and the thread ends
WebSocketClient_handleError(ws) ==
    [ws EXCEPT !.connected = FALSE, !.io = "ended", !.wire = <<>>,
               !.subscribed = {}, !.lost = @ \/ ws.connected]

\* subscribe without the test of isConnected
CoinbaseHandler_subscribe_Unguarded(books, ws, symbol) ==
    [books |-> IF symbol \in DOMAIN books THEN books
               ELSE Put(books, symbol, EmptyBook),
     ws |-> [ws EXCEPT !.subscribed = @ \cup {symbol}]]

\* CoinbaseHandler::subscribe: the book is created if there is none, and
\* the subscribe message sent
CoinbaseHandler_subscribe(books, ws, symbol) ==
    IF ~ws.connected THEN [books |-> books, ws |-> ws]
    ELSE [books |-> IF symbol \in DOMAIN books THEN books
                    ELSE Put(books, symbol, EmptyBook),
          ws |-> [ws EXCEPT !.subscribed = @ \cup {symbol}]]

\* CoinbaseHandler::unsubscribe
CoinbaseHandler_unsubscribe(books, ws, symbol) ==
    IF ~ws.connected THEN [books |-> books, ws |-> ws]
    ELSE [books |-> Drop(books, symbol),
          ws |-> [ws EXCEPT !.subscribed = @ \ {symbol}]]

Connect ==
    /\ session' = WebSocketClient_connect(session)
    /\ last' = Call("connect", ~session.running)
    /\ UNCHANGED <<order_books, inflight, view>>

Disconnect ==
    /\ session' = WebSocketClient_disconnect(session)
    /\ last' = Call("disconnect", session.running)
    /\ UNCHANGED <<order_books, inflight, view>>

Subscribe(symbol) ==
    /\ LET r == CoinbaseHandler_subscribe(order_books, session, symbol) IN
       /\ order_books' = r.books
       /\ session' = r.ws
    /\ last' = Call("subscribe", session.connected)
    /\ UNCHANGED <<inflight, view>>

Unsubscribe(symbol) ==
    /\ LET r == CoinbaseHandler_unsubscribe(order_books, session, symbol) IN
       /\ order_books' = r.books
       /\ session' = r.ws
    /\ last' = Call("unsubscribe", session.connected)
    /\ UNCHANGED <<inflight, view>>

\* asyncConnect to readWebSocketResponse: the handshakes succeed,
\* connected_ is set and asyncRead starts
ConnectOk ==
    /\ session.io = "connecting"
    /\ session' = [session EXCEPT !.connected = TRUE, !.io = "open",
                                  !.main = IF @ = "start" THEN "poll" ELSE @]
    /\ last' = Call("connected", TRUE)
    /\ UNCHANGED <<order_books, inflight, view>>

\* asyncConnect to readWebSocketResponse: a step fails and calls handleError
ConnectFail ==
    /\ session.io = "connecting"
    /\ session' = WebSocketClient_handleError(session)
    /\ last' = Call("connected", FALSE)
    /\ UNCHANGED <<order_books, inflight, view>>

\* the frames the exchange sends in this session
SessionFrames ==
    {L3Message("open", BTC, id, "buy", <<1, 0>>, 1, NoDefect) : id \in OrderIds}
      \cup {L3Message("done", BTC, id, "buy", <<1, 0>>, 0, NoDefect) : id \in OrderIds}

\* a frame arrives from the exchange for a symbol subscribed on this
\* connection
Arrive(j) ==
    /\ session.io = "open"
    /\ j.product_id \in session.subscribed
    /\ session.arrived < MaxFrames
    /\ session' = [session EXCEPT
                      !.arrived = @ + 1,
                      !.wire = Append(@, [n |-> session.arrived + 1, frame |-> j])]
    /\ UNCHANGED <<order_books, last, inflight, view>>

\* what async_read_some gets of the wire: the oldest k frames in one buffer
TakeChunk_Newest(wire, k) ==
    [chunk |-> <<wire[Len(wire)]>>, rest |-> SubSeq(wire, 1, Len(wire) - 1)]

TakeChunk(wire, k) ==
    [chunk |-> SubSeq(wire, 1, k), rest |-> SubSeq(wire, k + 1, Len(wire))]

\* asyncRead's completion: processMessage parses the buffer as one frame
\* and hands its payload to handleMessage; what follows the first frame in
\* the buffer is dropped, and so is a frame the buffer holds only in part
\* (whole = FALSE).  Then asyncRead is called again.
Read(k, whole) ==
    /\ session.io = "open"
    /\ k \in 1..Len(session.wire)
    /\ LET t == TakeChunk(session.wire, k)
           m == Head(t.chunk)
       IN IF whole
          THEN /\ order_books' = CoinbaseHandler_handleMessage(order_books, m.frame)
               /\ session' = [session EXCEPT !.wire = t.rest, !.log = Append(@, m.n)]
               /\ last' = Call("read", TRUE)
          ELSE /\ session' = [session EXCEPT !.wire = t.rest]
               /\ last' = Call("read", FALSE)
               /\ UNCHANGED order_books
    /\ UNCHANGED <<inflight, view>>

\* asyncRead's completion with an error or end of file, or a close frame
TransportError ==
    /\ session.io = "open"
    /\ session' = WebSocketClient_handleError(session)
    /\ last' = Call("error", TRUE)
    /\ UNCHANGED <<order_books, inflight, view>>

\* the application's loop: not connected, so it calls connect and waits
MainReconnect ==
    /\ session.main = "poll"
    /\ ~session.connected
    /\ session' = [WebSocketClient_connect(session) EXCEPT !.main = "wait"]
    /\ last' = Call("reconnect", ~session.running)
    /\ UNCHANGED <<order_books, inflight, view>>

\* the application's loop after the wait: connected, so it subscribes again
MainResubscribe ==
    /\ session.main = "wait"
    /\ LET r == CoinbaseHandler_subscribe(order_books, session, BTC) IN
       /\ order_books' = r.books
       /\ session' = [r.ws EXCEPT !.main = "poll"]
    /\ last' = Call("resubscribe", session.connected)
    /\ UNCHANGED <<inflight, view>>

SessionNext ==
    \/ Connect
    \/ Disconnect
    \/ \E symbol \in ProductIds : Subscribe(symbol)
    \/ \E symbol \in ProductIds : Unsubscribe(symbol)
    \/ ConnectOk
    \/ ConnectFail
    \/ \E j \in SessionFrames : Arrive(j)
    \/ \E k \in 1..MaxFrames, whole \in BOOLEAN : Read(k, whole)
    \/ TransportError
    \/ MainReconnect
    \/ MainResubscribe

\* The I/O thread and the application's loop keep running; a connection
\* attempt that is made again and again succeeds in the end.
SpecSession ==
    /\ InitSession
    /\ [][SessionNext]_vars
    /\ WF_vars(ConnectOk \/ ConnectFail)
    /\ SF_vars(ConnectOk)
    /\ WF_vars(\E k \in 1..MaxFrames, whole \in BOOLEAN : Read(k, whole))
    /\ WF_vars(MainReconnect)
    /\ WF_vars(MainResubscribe)

\* --------------------------------------------------- closing the session
\* disconnect() runs on the caller's thread while the I/O thread runs the
\* completion handlers.  Here io is also "callback" while the read handler
\* is between processMessage and its test of the flags, and main is the
\* caller: "closing" between disconnect's writes of the flags and its
\* join, "closed" once a disconnect has returned.
InitClose ==
    /\ order_books = <<>>
    /\ last = NoCall
    /\ inflight = NoSnapshot
    /\ view = NoView
    /\ session = NoSession

\* WebSocketClient::asyncRead: no read is issued once a flag is cleared
WebSocketClient_asyncRead(ws) ==
    IF ~ws.running \/ ~ws.connected THEN [ws EXCEPT !.io = "ended"]
    ELSE [ws EXCEPT !.io = "open"]

\* the end of asyncRead's completion handler: "Continue reading if still
\* connected"
ReadCompletion_Unflagged(ws) == [ws EXCEPT !.io = "open"]

ReadCompletion(ws) ==
    IF ws.connected /\ ws.running THEN WebSocketClient_asyncRead(ws)
    ELSE [ws EXCEPT !.io = "ended"]

\* the caller is not inside disconnect
CallerFree == session.main # "closing"

CloseConnect == CallerFree /\ Connect

CloseSubscribe == CallerFree /\ Subscribe(BTC)

\* disconnect up to ioc_.stop(): nothing when running_ is clear, else both
\* flags are cleared
CloseBegin ==
    /\ CallerFree
    /\ session' = IF ~session.running THEN [session EXCEPT !.main = "closed"]
                  ELSE [session EXCEPT !.running = FALSE, !.connected = FALSE,
                                       !.main = "closing",
                                       !.lost = @ \/ session.connected]
    /\ last' = Call("disconnect", session.running)
    /\ UNCHANGED <<order_books, inflight, view>>

\* disconnect from ioc_.stop() on: no further handler starts, the one that
\* runs ends, the thread is joined and the stream reset
CloseJoin ==
    /\ session.main = "closing"
    /\ session.io # "callback"
    /\ session' = [session EXCEPT !.io = "none", !.wire = <<>>,
                                  !.subscribed = {}, !.main = "closed"]
    /\ last' = Call("join", TRUE)
    /\ UNCHANGED <<order_books, inflight, view>>

\* readWebSocketResponse's handler: connected_ is set and asyncRead called
HandshakeDone ==
    /\ session.io = "connecting"
    /\ session' = WebSocketClient_asyncRead([session EXCEPT !.connected = TRUE])
    /\ last' = Call("connected", TRUE)
    /\ UNCHANGED <<order_books, inflight, view>>

\* asyncRead's handler up to the end of processMessage: the flags are not
\* looked at, the first frame of the buffer goes to handleMessage
ReadBegin(k, whole) ==
    /\ session.io = "open"
    /\ k \in 1..Len(session.wire)
    /\ LET t == TakeChunk(session.wire, k)
           m == Head(t.chunk)
       IN IF whole
          THEN /\ order_books' = CoinbaseHandler_handleMessage(order_books, m.frame)
               /\ session' = [session EXCEPT !.wire = t.rest, !.log = Append(@, m.n),
                                             !.io = "callback"]
               /\ last' = Call("read", TRUE)
          ELSE /\ session' = [session EXCEPT !.wire = t.rest, !.io = "callback"]
               /\ last' = Call("read", FALSE)
               /\ UNCHANGED order_books
    /\ UNCHANGED <<inflight, view>>

\* asyncRead's handler after processMessage
ReadEnd ==
    /\ session.io = "callback"
    /\ session' = ReadCompletion(session)
    /\ last' = Call("asyncRead", session.connected /\ session.running)
    /\ UNCHANGED <<order_books, inflight, view>>

CloseNext ==
    \/ CloseConnect
    \/ CloseSubscribe
    \/ CloseBegin
    \/ CloseJoin
    \/ HandshakeDone
    \/ ConnectFail
    \/ \E j \in SessionFrames : Arrive(j)
    \/ \E k \in 1..MaxFrames, whole \in BOOLEAN : ReadBegin(k, whole)
    \/ ReadEnd
    \/ TransportError

SpecClose == InitClose /\ [][CloseNext]_vars

\* ------------------------------------------------- the registry's handles
\* order_books_ maps a symbol to a std::shared_ptr<OrderBook>.  Here
\* order_books holds the pointers (object numbers), view.heap the objects
\* they point to, each with its use count, view.made the number of objects
\* made so far and view.handles the pointer each reader thread holds.
Readers == 1..MaxReaders

NoHandle == 0

\* a connected session
LiveSession ==
    [NoSession EXCEPT !.running = TRUE, !.connected = TRUE, !.io = "open"]

InitRegistry ==
    /\ order_books = <<>>
    /\ last = NoCall
    /\ inflight = NoSnapshot
    /\ view = [heap |-> <<>>, made |-> 0, handles |-> [r \in Readers |-> NoHandle]]
    /\ session = LiveSession

\* std::make_shared<OrderBook>(symbol): a new object with use count 1
make_shared(heap, p) == Put(heap, p, [count |-> 1, book |-> EmptyBook])

\* a copy of a shared_ptr: one more use
shared_ptr_copy(heap, p) == [heap EXCEPT ![p].count = @ + 1]

\* the end of a shared_ptr: one use less, and with the last use the object
shared_ptr_reset(heap, p) ==
    IF heap[p].count = 1 THEN Drop(heap, p)
    ELSE [heap EXCEPT ![p].count = @ - 1]

\* CoinbaseHandler::getOrderBook: a copy of the registered pointer, or
\* nullptr
CoinbaseHandler_getOrderBook_Borrowed(books, heap, symbol) ==
    IF symbol \in DOMAIN books
    THEN [ptr |-> books[symbol], heap |-> heap]
    ELSE [ptr |-> NoHandle, heap |-> heap]

CoinbaseHandler_getOrderBook(books, heap, symbol) ==
    IF symbol \in DOMAIN books
    THEN [ptr |-> books[symbol], heap |-> shared_ptr_copy(heap, books[symbol])]
    ELSE [ptr |-> NoHandle, heap |-> heap]

\* CoinbaseHandler::subscribe on the registry of pointers
RegistrySubscribe(symbol) ==
    /\ view.made < MaxBooks
    /\ IF session.connected /\ symbol \notin DOMAIN order_books
       THEN /\ order_books' = Put(order_books, symbol, view.made + 1)
            /\ view' = [view EXCEPT !.heap = make_shared(@, view.made + 1),
                                    !.made = @ + 1]
       ELSE UNCHANGED <<order_books, view>>
    /\ last' = Call("subscribe", session.connected)
    /\ UNCHANGED <<inflight, session>>

\* CoinbaseHandler::unsubscribe: erase ends the registry's pointer
RegistryUnsubscribe(symbol) ==
    /\ IF session.connected /\ symbol \in DOMAIN order_books
       THEN /\ order_books' = Drop(order_books, symbol)
            /\ view' = [view EXCEPT !.heap = shared_ptr_reset(@, order_books[symbol])]
       ELSE UNCHANGED <<order_books, view>>
    /\ last' = Call("unsubscribe", session.connected)
    /\ UNCHANGED <<inflight, session>>

\* a reader thread looks a symbol up and keeps what it gets
ReaderLookup(r, symbol) ==
    /\ view.handles[r] = NoHandle
    /\ LET g == CoinbaseHandler_getOrderBook(order_books, view.heap, symbol) IN
       /\ view' = [view EXCEPT !.heap = g.heap, !.handles[r] = g.ptr]
       /\ last' = Call("getOrderBook", g.ptr # NoHandle)
    /\ UNCHANGED <<order_books, inflight, session>>

\* a reader thread calls a query of the book it holds; the call is defined
\* when the object still exists
ReaderQuery(r) ==
    /\ view.handles[r] # NoHandle
    /\ last' = Call("getOrderCount", view.handles[r] \in DOMAIN view.heap)
    /\ UNCHANGED <<order_books, inflight, view, session>>

\* a reader thread lets its pointer go
ReaderDrop(r) ==
    /\ view.handles[r] # NoHandle
    /\ view' = [view EXCEPT
                   !.heap = IF view.handles[r] \in DOMAIN @
                            THEN shared_ptr_reset(@, view.handles[r]) ELSE @,
                   !.handles[r] = NoHandle]
    /\ last' = Call("reset", TRUE)
    /\ UNCHANGED <<order_books, inflight, session>>

\* the books the registry's pointers lead to
Registered == [symbol \in DOMAIN order_books |-> view.heap[order_books[symbol]].book]

\* the I/O thread handles a frame: each process function looks the book up
\* (the copy ends when the function returns) and updates it
RegistryFrame(j) ==
    /\ DOMAIN order_books # {}
    /\ LET after == CoinbaseHandler_handleMessage(Registered, j) IN
       view' = [view EXCEPT !.heap =
                   [p \in DOMAIN @ |->
                       IF \E symbol \in DOMAIN order_books : order_books[symbol] = p
                       THEN [@[p] EXCEPT !.book =
                               after[CHOOSE symbol \in DOMAIN order_books :
                                         order_books[symbol] = p]]
                       ELSE @[p]]]
    /\ last' = Call(j.type, j.product_id \in DOMAIN order_books)
    /\ UNCHANGED <<order_books, inflight, session>>

RegistryNext ==
    \/ \E symbol \in ProductIds : RegistrySubscribe(symbol)
    \/ \E symbol \in ProductIds : RegistryUnsubscribe(symbol)
    \/ \E r \in Readers, symbol \in ProductIds : ReaderLookup(r, symbol)
    \/ \E r \in Readers : ReaderQuery(r)
    \/ \E r \in Readers : ReaderDrop(r)
    \/ \E j \in SessionFrames : RegistryFrame(j)

SpecRegistry == InitRegistry /\ [][RegistryNext]_vars

\* ----------------------------------------------------------- the send queue
\* send() runs on the caller's thread, the completion handler of
\* async_write on the I/O thread.  view.queue is send_queue_ (the messages
\* are numbered), view.mutex the thread that holds queue_mutex_,
\* view.producer where the caller is inside send(), view.io where the I/O
\* thread is, view.writes the async_write operations not completed yet and
\* view.sends the calls of send() made so far.
InitSend ==
    /\ order_books = <<>>
    /\ last = NoCall
    /\ inflight = NoSnapshot
    /\ view = [queue |-> <<>>, mutex |-> "none", producer |-> "idle",
               io |-> "run", writes |-> 0, sends |-> 0]
    /\ session = LiveSession

\* send(): nothing when connected_ is clear
SendCall ==
    /\ view.producer = "idle"
    /\ view.sends < MaxSends
    /\ view' = [view EXCEPT !.sends = @ + 1,
                            !.producer = IF session.connected THEN "lock" ELSE "idle"]
    /\ last' = Call("send", session.connected)
    /\ UNCHANGED <<order_books, inflight, session>>

\* send(): lock_guard, push_back, end of the block
SendEnqueue ==
    /\ view.producer = "lock"
    /\ view.mutex = "none"
    /\ view' = [view EXCEPT !.queue = Append(@, view.sends), !.producer = "size"]
    /\ last' = Call("push_back", TRUE)
    /\ UNCHANGED <<order_books, inflight, session>>

\* send(): if (send_queue_.size() == 1) asyncSend()
SendTestSize ==
    /\ view.producer = "size"
    /\ view' = [view EXCEPT !.producer = IF Len(view.queue) = 1 THEN "asyncSend"
                                         ELSE "idle"]
    /\ last' = Call("size", Len(view.queue) = 1)
    /\ UNCHANGED <<order_books, inflight, session>>

\* asyncSend() called by send(): the flags, then the front of the queue
\* under the lock, then async_write
SendAsyncSend ==
    /\ view.producer = "asyncSend"
    /\ IF ~session.connected \/ ~session.running
       THEN /\ view' = [view EXCEPT !.producer = "idle"]
            /\ last' = Call("asyncSend", FALSE)
       ELSE /\ view.mutex = "none"
            /\ view' = [view EXCEPT !.producer = "idle",
                                    !.writes = IF view.queue = <<>> THEN @ ELSE @ + 1]
            /\ last' = Call("asyncSend", view.queue # <<>>)
    /\ UNCHANGED <<order_books, inflight, session>>

\* the completion handler of async_write with an error: handleError
WriteError ==
    /\ view.io = "run"
    /\ view.writes > 0
    /\ view' = [view EXCEPT !.writes = @ - 1]
    /\ session' = WebSocketClient_handleError(session)
    /\ last' = Call("write", FALSE)
    /\ UNCHANGED <<order_books, inflight>>

\* the completion handler of async_write: lock_guard, pop_front, and with
\* a message left asyncSend() is called inside the block
WriteDone ==
    /\ view.io = "run"
    /\ view.writes > 0
    /\ view.mutex = "none"
    /\ view.queue # <<>>
    /\ view' = IF Len(view.queue) = 1
               THEN [view EXCEPT !.writes = @ - 1, !.queue = <<>>]
               ELSE [view EXCEPT !.writes = @ - 1, !.queue = Tail(@),
                                 !.mutex = "io", !.io = "nested"]
    /\ last' = Call("write", TRUE)
    /\ UNCHANGED <<order_books, inflight, session>>

\* asyncSend() called by the handler, which holds queue_mutex_: with a
\* flag clear it returns and the block ends; else it locks the std::mutex
\* its own thread holds, which is undefined: the thread waits for itself
\* (throws = FALSE) or lock() throws, the handler unwinds and ioc_.run()
\* ends in the thread's catch (throws = TRUE)
WriteNext(throws) ==
    /\ view.io = "nested"
    /\ IF ~session.connected \/ ~session.running
       THEN /\ view' = [view EXCEPT !.mutex = "none", !.io = "run"]
            /\ last' = Call("asyncSend", FALSE)
       ELSE IF throws
       THEN /\ view' = [view EXCEPT !.mutex = "none", !.io = "ended"]
            /\ last' = Call("relock", FALSE)
       ELSE /\ view' = [view EXCEPT !.io = "blocked"]
            /\ last' = Call("relock", TRUE)
    /\ UNCHANGED <<order_books, inflight, session>>

\* asyncRead's completion with an error
ReadError ==
    /\ view.io = "run"
    /\ session.connected
    /\ session' = WebSocketClient_handleError(session)
    /\ last' = Call("error", TRUE)
    /\ UNCHANGED <<order_books, inflight, view>>

SendNext ==
    \/ SendCall
    \/ SendEnqueue
    \/ SendTestSize
    \/ SendAsyncSend
    \/ WriteError
    \/ WriteDone
    \/ \E throws \in BOOLEAN : WriteNext(throws)
    \/ ReadError

SpecSend == InitSend /\ [][SendNext]_vars

\* ---------------------------------------------------- the book's queries
\* addOrder takes any price: the calls here also use price 0
QueryPrices == 0..MaxPrice

\* the depths a caller asks for
Depths == 0..(MaxPrice + 2)

QueryNext ==
    \/ \E id \in CallIds, side \in OrderSide, price \in QueryPrices, size \in Sizes :
         AddOrder(id, side, price, size)
    \/ \E id \in CallIds : RemoveOrder(id)
    \/ \E id \in CallIds, new_size \in NewSizes : ModifyOrder(id, new_size)

SpecQuery == Init /\ [][QueryNext]_vars

\* ------------------------------------------------------ clearing the book
\* OrderBook::clear on the book the application holds; ok tells whether
\* the book held an order
ClearBook ==
    /\ order_books' = [order_books EXCEPT ![BTC] = OrderBook_clear(@)]
    /\ last' = Call("clear", Resting(TheBook) # {})
    /\ UNCHANGED <<inflight, view, session>>

\* a snapshot frame handled next after a clear; ok tells whether it reached
\* a book that the clear had taken orders from
SnapshotAfterClear(j) ==
    /\ last.op = "clear"
    /\ order_books' = CoinbaseHandler_handleMessage(order_books, j)
    /\ last' = Call("snapshot", last.ok /\ Delivered(j))
    /\ UNCHANGED <<inflight, view, session>>

ClearNext ==
    \/ \E id \in CallIds, side \in OrderSide, price \in Prices, size \in Sizes :
         AddOrder(id, side, price, size)
    \/ \E id \in CallIds, new_size \in NewSizes : ModifyOrder(id, new_size)
    \/ ClearBook
    \/ \E j \in SnapshotFrames : SnapshotAfterClear(j)

SpecClear == Init /\ [][ClearNext]_vars

\* ------------------------------------------------- the visualizer's metrics
\* The metrics are members of ConsoleVisualizer; here view holds them.  A
\* double is modelled by the exact fraction <<numerator, denominator>> in
\* lowest terms (rounding is left out).
RECURSIVE GCD(_, _)
GCD(a, b) == IF b = 0 THEN a ELSE GCD(b, a % b)

Frac(n, d) ==
    LET g == GCD(IF n < 0 THEN 0 - n ELSE n, d) IN <<n \div g, d \div g>>

\* the members after construction: all 0.0
NoMetrics ==
    [spread_bps |-> Frac(0, 1), bid_liquidity_depth |-> Frac(0, 1),
     ask_liquidity_depth |-> Frac(0, 1), order_book_imbalance |-> Frac(0, 1),
     market_pressure |-> Frac(0, 1), vwap_bid |-> Frac(0, 1),
     vwap_ask |-> Frac(0, 1), price_impact_1pct |-> Frac(0, 1)]

\* the sum of a sequence of numbers
RECURSIVE SumSeq(_)
SumSeq(q) == IF q = <<>> THEN 0 ELSE Head(q) + SumSeq(Tail(q))

\* the loop over the asks for the price a market order of a hundredth of
\* the whole volume reaches; volume is the whole volume
RECURSIVE ImpactPrice(_, _, _, _)
ImpactPrice(asks, cumulative_volume, volume, impact_price) ==
    IF asks = <<>> THEN impact_price
    ELSE IF 100 * (cumulative_volume + Head(asks)[2]) >= volume
    THEN Head(asks)[1]
    ELSE ImpactPrice(Tail(asks), cumulative_volume + Head(asks)[2], volume,
                     Head(asks)[1])

\* calculateHFTMetrics with the imbalance taken as asks over bids
ConsoleVisualizer_calculateHFTMetrics_Inverted(m, bids, asks) ==
    IF bids = <<>> \/ asks = <<>> THEN m
    ELSE LET total_bid_volume == SumSeq([i \in 1..Len(bids) |-> bids[i][2]])
             total_ask_volume == SumSeq([i \in 1..Len(asks) |-> asks[i][2]])
             imbalance == IF total_bid_volume > 0
                          THEN Frac(total_ask_volume, total_bid_volume)
                          ELSE Frac(1, 1)
         IN [m EXCEPT !.order_book_imbalance = imbalance,
                      !.market_pressure = Frac(imbalance[1] - imbalance[2],
                                               imbalance[1] + imbalance[2])]

\* ConsoleVisualizer::calculateHFTMetrics: the members after the call
ConsoleVisualizer_calculateHFTMetrics(m, bids, asks) ==
    IF bids = <<>> \/ asks = <<>> THEN m
    ELSE LET best_bid == bids[1][1]
             best_ask == asks[1][1]
             bid_boundary(p) == 1000 * p >= 995 * best_bid
             ask_boundary(p) == 1000 * p <= 1005 * best_ask
             total_bid_volume == SumSeq([i \in 1..Len(bids) |-> bids[i][2]])
             total_ask_volume == SumSeq([i \in 1..Len(asks) |-> asks[i][2]])
             total_bid_value == SumSeq([i \in 1..Len(bids) |-> bids[i][1] * bids[i][2]])
             total_ask_value == SumSeq([i \in 1..Len(asks) |-> asks[i][1] * asks[i][2]])
             bid_liquidity_depth ==
                 SumSeq([i \in 1..Len(bids) |->
                            IF bid_boundary(bids[i][1]) THEN bids[i][2] ELSE 0])
             ask_liquidity_depth ==
                 SumSeq([i \in 1..Len(asks) |->
                            IF ask_boundary(asks[i][1]) THEN asks[i][2] ELSE 0])
             imbalance == IF total_ask_volume > 0
                          THEN Frac(total_bid_volume, total_ask_volume)
                          ELSE Frac(1, 1)
         IN [spread_bps |-> Frac(20000 * (best_ask - best_bid), best_bid + best_ask),
             bid_liquidity_depth |-> Frac(bid_liquidity_depth, 1),
             ask_liquidity_depth |-> Frac(ask_liquidity_depth, 1),
             order_book_imbalance |-> imbalance,
             market_pressure |-> Frac(imbalance[1] - imbalance[2],
                                      imbalance[1] + imbalance[2]),
             vwap_bid |-> IF total_bid_volume > 0
                          THEN Frac(total_bid_value, total_bid_volume)
                          ELSE m.vwap_bid,
             vwap_ask |-> IF total_ask_volume > 0
                          THEN Frac(total_ask_value, total_ask_volume)
                          ELSE m.vwap_ask,
             price_impact_1pct |->
                 Frac(100 * (ImpactPrice(asks, 0, total_bid_volume + total_ask_volume,
                                         best_ask) - best_ask),
                      best_ask)]

\* what getBidLevels and getAskLevels can return: up to MaxPrice levels in
\* the side's order, a level's size being 0 after modifyOrder(id, 0)
LevelSnapshots(descending) ==
    {q \in SeqsUpTo(Prices \X NewSizes, MaxPrice) :
        \A i \in 1..Len(q) : \A k \in 1..Len(q) :
            i < k => IF descending THEN q[i][1] > q[k][1] ELSE q[i][1] < q[k][1]}

InitMetrics ==
    /\ order_books = (BTC :> EmptyBook)
    /\ last = NoCall
    /\ inflight = NoSnapshot
    /\ view = NoMetrics
    /\ session = NoSession

\* render reads the two level lists of the book
ReadLevels(bids, asks) ==
    /\ ~inflight.active
    /\ inflight' = [active |-> TRUE, bids |-> bids, asks |-> asks]
    /\ UNCHANGED <<order_books, last, view, session>>

\* render calls calculateHFTMetrics with the levels it read; ok tells
\* whether both sides had a level
CalculateHFTMetrics(bids, asks) ==
    /\ inflight = [active |-> TRUE, bids |-> bids, asks |-> asks]
    /\ view' = ConsoleVisualizer_calculateHFTMetrics(view, bids, asks)
    /\ last' = Call("calculateHFTMetrics", bids # <<>> /\ asks # <<>>)
    /\ inflight' = NoSnapshot
    /\ UNCHANGED <<order_books, session>>

MetricsNext ==
    \/ \E bids \in LevelSnapshots(TRUE), asks \in LevelSnapshots(FALSE) :
          ReadLevels(bids, asks)
    \/ inflight.active /\ CalculateHFTMetrics(inflight.bids, inflight.asks)

SpecMetrics == InitMetrics /\ [][MetricsNext]_vars

\* ------------------------------------------- frames for several symbols
\* The registry with books for several symbols, and frames of every type
\* for each symbol, registered or not.
ProductFrames ==
    UNION {{L3Message(type, symbol, CHOOSE id \in OrderIds : TRUE, "sell", <<1, 0>>, 1,
                      NoDefect) : type \in {"open", "done", "match", "change"}}
             \cup {TickerMessage(symbol, <<1, 0>>, 1, <<2, 0>>, 1, 1, NoDefect),
                   L2Message(symbol, <<[side |-> "buy", price |-> <<2, 0>>, size |-> 1,
                                        bad |-> FALSE]>>, {}),
                   SnapshotMessage(symbol,
                       <<[price |-> <<1, 0>>, size |-> 1, id |-> NoId, bad |-> FALSE]>>,
                       <<>>, {})} :
           symbol \in ProductIds}

\* the I/O thread handles a frame, whether a book is registered or not
ProductFrame(j) ==
    /\ LET after == CoinbaseHandler_handleMessage(Registered, j) IN
       view' = [view EXCEPT !.heap =
                   [p \in DOMAIN @ |->
                       IF \E symbol \in DOMAIN order_books : order_books[symbol] = p
                       THEN [@[p] EXCEPT !.book =
                               after[CHOOSE symbol \in DOMAIN order_books :
                                         order_books[symbol] = p]]
                       ELSE @[p]]]
    /\ last' = Call(j.type, j.product_id \in DOMAIN order_books)
    /\ UNCHANGED <<order_books, inflight, session>>

ProductsNext ==
    \/ \E symbol \in ProductIds : RegistrySubscribe(symbol)
    \/ \E symbol \in ProductIds : RegistryUnsubscribe(symbol)
    \/ \E j \in ProductFrames : ProductFrame(j)

SpecProducts == InitRegistry /\ [][ProductsNext]_vars

\* ------------------------------------------- an Order and a PriceLevel
\* The two classes used on their own, as the unit tests use them: view
\* holds one PriceLevel and the orders it points to, inflight one Order
\* that is in no level.
Amounts == (0 - 1)..(MaxSize + 1)

InitLevel ==
    /\ order_books = (BTC :> EmptyBook)
    /\ last = NoCall
    /\ inflight \in {Order(id, side, price, size) :
                        id \in OrderIds, side \in OrderSide,
                        price \in Prices, size \in NewSizes}
    /\ view \in {[level |-> PriceLevel(price), heap |-> <<>>] : price \in Prices}
    /\ session = NoSession

\* the orders the level points to; the others are destroyed
LevelHeap(level, heap) ==
    [r \in (DOMAIN heap) \cap Range(level.orders) |-> heap[r]]

\* order->reduceSize(amount) on the order that is in no level
ReduceSize(amount) ==
    /\ inflight' = Order_reduceSize(inflight, amount).order
    /\ last' = Call("reduceSize", Order_reduceSize(inflight, amount).ok)
    /\ UNCHANGED <<order_books, view, session>>

\* level->addOrder(std::make_shared<Order>(id, side, price, size))
LevelAddOrder(id, side, price, size) ==
    LET ref == <<id, Min({k \in 0..(Cardinality(DOMAIN view.heap) + 1) :
                            <<id, k>> \notin DOMAIN view.heap})>>
        heap == Put(view.heap, ref, Order(id, side, price, size))
        added == PriceLevel_addOrder(view.level, heap, ref)
    IN /\ view' = [level |-> added.level, heap |-> LevelHeap(added.level, heap)]
       /\ last' = Call("PriceLevel::addOrder", added.ok)
       /\ UNCHANGED <<order_books, inflight, session>>

\* level->removeOrder(order_id)
LevelRemoveOrder(order_id) ==
    LET removed == PriceLevel_removeOrder(view.level, view.heap, order_id)
    IN /\ view' = [level |-> removed.level,
                   heap |-> LevelHeap(removed.level, view.heap)]
       /\ last' = Call("PriceLevel::removeOrder", removed.ok)
       /\ UNCHANGED <<order_books, inflight, session>>

\* level->updateOrder(order_id, new_size)
LevelUpdateOrder(order_id, new_size) ==
    LET updated == PriceLevel_updateOrder(view.level, view.heap, order_id, new_size)
    IN /\ view' = [level |-> updated.level, heap |-> updated.heap]
       /\ last' = Call("PriceLevel::updateOrder", updated.ok)
       /\ UNCHANGED <<order_books, inflight, session>>

LevelNext ==
    \/ \E amount \in Amounts : ReduceSize(amount)
    \/ \E id \in OrderIds, side \in OrderSide, price \in Prices, size \in NewSizes :
          LevelAddOrder(id, side, price, size)
    \/ \E order_id \in OrderIds : LevelRemoveOrder(order_id)
    \/ \E order_id \in OrderIds, new_size \in NewSizes :
          LevelUpdateOrder(order_id, new_size)

SpecLevel == InitLevel /\ [][LevelNext]_vars

\* ------------------------------- getSpread and getMidpointPrice at work
\* One thread calls getSpread or getMidpointPrice while another calls
\* addOrder, removeOrder and modifyOrder.  The getter takes the mutex in
\* getBestBid, gives it back, and takes it again in getBestAsk: view.pc is
\* where the reading thread is, view.tmp the best bid it read, view.result
\* what the getter returned last.  view.seen is kept for the properties:
\* the values the getter would have returned from each state the book has
\* had since the getter was called.
ReaderIdle == [pc |-> "idle", tmp |-> 0, result |-> 0, seen |-> {}]

InitAtomic ==
    /\ order_books = (BTC :> EmptyBook)
    /\ last = NoCall
    /\ inflight = NoSnapshot
    /\ view = ReaderIdle
    /\ session = NoSession

\* what the getter the reader is in gives on a book
GetterOn(pc, book) ==
    IF pc = "getSpread" THEN OrderBook_getSpread(book)
    ELSE OrderBook_getMidpointPrice(book)

\* a call of the writing thread has returned r
WriterReturns(op, r) ==
    /\ order_books' = [order_books EXCEPT ![BTC] = r.book]
    /\ last' = Call(op, r.ok)
    /\ view' = IF view.pc = "idle" THEN view
               ELSE [view EXCEPT !.seen = @ \cup {GetterOn(view.pc, r.book)}]
    /\ UNCHANGED <<inflight, session>>

WriterAddOrder(id, side, price, size) ==
    /\ Room(TheBook, 1) \/ id \in Resting(TheBook)
    /\ WriterReturns("addOrder", OrderBook_addOrder(TheBook, Order(id, side, price, size)))

WriterRemoveOrder(id) ==
    WriterReturns("removeOrder", OrderBook_removeOrder(TheBook, id))

WriterModifyOrder(id, new_size) ==
    WriterReturns("modifyOrder", OrderBook_modifyOrder(TheBook, id, new_size))

\* the getter's first statement: getBestBid, under the mutex
GetterBestBid(getter) ==
    /\ view.pc = "idle"
    /\ view' = [pc |-> getter, tmp |-> OrderBook_getBestBid(TheBook),
                result |-> view.result, seen |-> {GetterOn(getter, TheBook)}]
    /\ UNCHANGED <<order_books, last, inflight, session>>

\* the getter's second statement, getBestAsk under the mutex, and its return
GetterReturn ==
    /\ view.pc # "idle"
    /\ view' = [ReaderIdle EXCEPT !.result =
                  IF view.pc = "getSpread"
                  THEN SpreadOf(view.tmp, OrderBook_getBestAsk(TheBook))
                  ELSE MidpointOf(view.tmp, OrderBook_getBestAsk(TheBook))]
    /\ last' = Call(view.pc, TRUE)
    /\ UNCHANGED <<order_books, inflight, session>>

AtomicNext ==
    \/ \E id \in CallIds, side \in OrderSide, price \in Prices, size \in Sizes :
          WriterAddOrder(id, side, price, size)
    \/ \E id \in CallIds : WriterRemoveOrder(id)
    \/ \E id \in CallIds, new_size \in NewSizes : WriterModifyOrder(id, new_size)
    \/ \E getter \in {"getSpread", "getMidpointPrice"} : GetterBestBid(getter)
    \/ GetterReturn

SpecAtomic == InitAtomic /\ [][AtomicNext]_vars

\* ------------------------------------------------- the update callback
\* addOrder, removeOrder and modifyOrder call notifyUpdate before their
\* lock_guard ends.  view.callback is what setUpdateCallback installed:
\* nothing, a function that leaves the book alone ("plain"), or one that
\* calls getOrderCount ("reenters").  view.pc is where the calling thread
\* is, view.mutex who holds mutex_, view.seen what another thread read
\* with getOrderCount last.
CallbackKinds == {"none", "plain", "reenters"}

InitCallback ==
    /\ order_books = (BTC :> EmptyBook)
    /\ last = NoCall
    /\ inflight = NoSnapshot
    /\ view = [pc |-> "idle", mutex |-> "none", callback |-> "none", seen |-> 0]
    /\ session = NoSession

\* notifyUpdate with the mutex given back before the callback runs
OrderBook_notifyUpdate_Unlocked(notified, callback) ==
    IF notified > 0 /\ callback # "none"
    THEN [pc |-> "callback", mutex |-> "none"]
    ELSE [pc |-> "idle", mutex |-> "none"]

\* OrderBook::notifyUpdate, called inside the lock_guard's block: where
\* the calling thread is after the mutation, and who holds the mutex
OrderBook_notifyUpdate(notified, callback) ==
    IF notified > 0 /\ callback # "none"
    THEN [pc |-> "callback", mutex |-> "writer"]
    ELSE [pc |-> "idle", mutex |-> "none"]

\* OrderBook::setUpdateCallback
SetUpdateCallback(callback) ==
    /\ view.pc = "idle"
    /\ view.callback # callback
    /\ view' = [view EXCEPT !.callback = callback]
    /\ last' = Call("setUpdateCallback", TRUE)
    /\ UNCHANGED <<order_books, inflight, session>>

\* a mutating call up to its notifyUpdate; r is what the call does to the
\* book.  With no callback to run the call returns.
MutatingCall(op, r) ==
    /\ view.pc = "idle"
    /\ view.mutex = "none"
    /\ order_books' = [order_books EXCEPT ![BTC] = r.book]
    /\ LET n == OrderBook_notifyUpdate(r.notified, view.callback) IN
       view' = [view EXCEPT !.pc = n.pc, !.mutex = n.mutex]
    /\ last' = Call(op, r.ok)
    /\ UNCHANGED <<inflight, session>>

CallbackAddOrder(id, side, price, size) ==
    /\ Room(TheBook, 1) \/ id \in Resting(TheBook)
    /\ MutatingCall("addOrder", OrderBook_addOrder(TheBook, Order(id, side, price, size)))

CallbackRemoveOrder(id) ==
    MutatingCall("removeOrder", OrderBook_removeOrder(TheBook, id))

CallbackModifyOrder(id, new_size) ==
    MutatingCall("modifyOrder", OrderBook_modifyOrder(TheBook, id, new_size))

\* the callback returns, and the call after it: the lock_guard ends
CallbackReturns ==
    /\ view.pc = "callback"
    /\ view.callback = "plain"
    /\ view' = [view EXCEPT !.pc = "idle", !.mutex = "none"]
    /\ last' = Call("callback", TRUE)
    /\ UNCHANGED <<order_books, inflight, session>>

\* the callback calls getOrderCount, which locks the std::mutex its own
\* thread holds.  That is undefined: the thread waits for itself
\* (throws = FALSE), or lock() throws, the callback ends (catching the
\* exception or passing it on) and the lock_guard ends with the call
\* (throws = TRUE).
CallbackReenters(throws) ==
    /\ view.pc = "callback"
    /\ view.callback = "reenters"
    /\ view' = IF throws THEN [view EXCEPT !.pc = "idle", !.mutex = "none"]
               ELSE [view EXCEPT !.pc = "blocked"]
    /\ last' = Call("relock", ~throws)
    /\ UNCHANGED <<order_books, inflight, session>>

\* another thread calls getOrderCount: lock_guard, the count, return
ObserverRead ==
    /\ view.mutex = "none"
    /\ view' = [view EXCEPT !.seen = OrderBook_getOrderCount(TheBook)]
    /\ last' = Call("getOrderCount", TRUE)
    /\ UNCHANGED <<order_books, inflight, session>>

CallbackNext ==
    \/ \E callback \in CallbackKinds : SetUpdateCallback(callback)
    \/ \E id \in CallIds, side \in OrderSide, price \in Prices, size \in Sizes :
          CallbackAddOrder(id, side, price, size)
    \/ \E id \in CallIds : CallbackRemoveOrder(id)
    \/ \E id \in CallIds, new_size \in NewSizes : CallbackModifyOrder(id, new_size)
    \/ CallbackReturns
    \/ \E throws \in BOOLEAN : CallbackReenters(throws)
    \/ ObserverRead

SpecCallback == InitCallback /\ [][CallbackNext]_vars

\* ------------------------------------------------------------- properties
\* the sizes of the orders behind a set of references
RECURSIVE SumSizes(_, _)
SumSizes(heap, refs) ==
    IF refs = {} THEN 0
    ELSE LET r == CHOOSE x \in refs : TRUE
         IN heap[r].size + SumSizes(heap, refs \ {r})

\* the order an id of the index stands for
OrderOf(book, id) == book.heap[book.orders[id]]

\* the ids resting at a price on a side, according to the index
RestingAt(book, side, price) ==
    {id \in Resting(book) :
        OrderOf(book, id).side = side /\ OrderOf(book, id).price = price}

\* the prices at which something rests on a side
RestingPrices(book, side) ==
    {OrderOf(book, id).price : id \in {i \in Resting(book) : OrderOf(book, i).side = side}}

AllLevels(book, side) ==
    IF side = BUY
    THEN OrderBook_getBidLevels(book, OrderBook_getBidLevelCount(book))
    ELSE OrderBook_getAskLevels(book, OrderBook_getAskLevelCount(book))

\* everything the queries of a book show
Observable(book) ==
    [orders |-> [id \in Resting(book) |-> OrderOf(book, id)],
     bids |-> AllLevels(book, BUY),
     asks |-> AllLevels(book, SELL),
     order_count |-> OrderBook_getOrderCount(book),
     bid_level_count |-> OrderBook_getBidLevelCount(book),
     ask_level_count |-> OrderBook_getAskLevelCount(book),
     best_bid |-> OrderBook_getBestBid(book),
     best_ask |-> OrderBook_getBestAsk(book)]

\* C1: on either side, the size bid_levels/ask_levels reports for a price is
\* the sum of the sizes of the orders resting at that price on that side,
\* and every price at which an order rests is reported.
C1_LevelSizeIsSumOfOrders ==
    \A side \in OrderSide :
        LET shown == AllLevels(TheBook, side) IN
        /\ \A i \in 1..Len(shown) :
             shown[i][2] = SumSizes(TheBook.heap,
                               {TheBook.orders[id] :
                                   id \in RestingAt(TheBook, side, shown[i][1])})
        /\ {shown[i][1] : i \in 1..Len(shown)} = RestingPrices(TheBook, side)

\* a level holding two orders, one of which was just resized
C1_Witness ==
    /\ last.op = "modifyOrder" /\ last.ok
    /\ \E side \in OrderSide, p \in Prices :
         Cardinality(RestingAt(TheBook, side, p)) = 2

\* C2: the id index and the levels correspond one to one: an indexed id is
\* held by the level of its side and price and by no other, a level holds
\* only indexed orders, and order_count is the sum of the levels' counts.
LevelsHolding(book, id) ==
    {<<side, p>> \in OrderSide \X Prices :
        p \in DOMAIN Levels(book, side) /\ id \in DOMAIN Levels(book, side)[p].orders}

RECURSIVE SumCounts(_, _)
SumCounts(levels, keys) ==
    IF keys = {} THEN 0
    ELSE LET p == CHOOSE x \in keys : TRUE
         IN Cardinality(DOMAIN levels[p].orders) + SumCounts(levels, keys \ {p})

C2_IndexMatchesLevels ==
    /\ \A id \in Resting(TheBook) :
         LET o == OrderOf(TheBook, id) IN
         /\ o.id = id
         /\ LevelsHolding(TheBook, id) = {<<o.side, o.price>>}
         /\ Levels(TheBook, o.side)[o.price].orders[id] = TheBook.orders[id]
    /\ \A side \in OrderSide : \A p \in DOMAIN Levels(TheBook, side) :
         /\ Levels(TheBook, side)[p].price = p
         /\ DOMAIN Levels(TheBook, side)[p].orders \subseteq Resting(TheBook)
    /\ OrderBook_getOrderCount(TheBook)
         = SumCounts(TheBook.bid_levels, DOMAIN TheBook.bid_levels)
             + SumCounts(TheBook.ask_levels, DOMAIN TheBook.ask_levels)

\* an order has just been removed and another one still rests
C2_Witness ==
    /\ last.op \in {"removeOrder", "done"} /\ last.ok
    /\ OrderBook_getOrderCount(TheBook) >= 1

\* C3: no level that is counted or shown is empty; the level of the last
\* order at a price goes with the order.
C3_NoEmptyLevel ==
    /\ \A side \in OrderSide : \A p \in DOMAIN Levels(TheBook, side) :
         ~PriceLevel_isEmpty(Levels(TheBook, side)[p])
    /\ \A side \in OrderSide :
         \A i \in 1..Len(AllLevels(TheBook, side)) :
            RestingAt(TheBook, side, AllLevels(TheBook, side)[i][1]) # {}
    /\ OrderBook_getBidLevelCount(TheBook) = Cardinality(RestingPrices(TheBook, BUY))
    /\ OrderBook_getAskLevelCount(TheBook) = Cardinality(RestingPrices(TheBook, SELL))

\* the only order of the book has just been removed, and its level with it
C3_Witness ==
    /\ last.op = "removeOrder" /\ last.ok
    /\ Resting(TheBook) = {}
    /\ OrderBook_getBidLevelCount(TheBook) + OrderBook_getAskLevelCount(TheBook) = 0

\* C4: with orders on both sides, best_bid < best_ask.
C4_NeverCrossedOrLocked ==
    (TheBook.bid_levels # <<>> /\ TheBook.ask_levels # <<>>)
        => OrderBook_getBestBid(TheBook) < OrderBook_getBestAsk(TheBook)

\* C5: add_order of a resting id, and remove_order or modify_order of an id
\* that is not resting, return false and change nothing in the book.
C5_FailedCallChangesNothing ==
    [][/\ \A id \in CallIds, side \in OrderSide, price \in Prices, size \in Sizes :
            (AddOrder(id, side, price, size) /\ id \in Resting(TheBook))
                => (~last'.ok /\ order_books' = order_books)
       /\ \A id \in CallIds :
            (RemoveOrder(id) /\ id \notin Resting(TheBook))
                => (~last'.ok /\ order_books' = order_books)
       /\ \A id \in CallIds, new_size \in NewSizes :
            (ModifyOrder(id, new_size) /\ id \notin Resting(TheBook))
                => (~last'.ok /\ order_books' = order_books)]_vars

\* add_order has just been refused on a book that holds an order
C5_Witness ==
    /\ last.op = "addOrder" /\ ~last.ok
    /\ Resting(TheBook) # {}

\* C6: modify_order(id, new_size) with new_size <= 0 on a resting id leaves
\* the book remove_order(id) leaves.
C6_ModifyToZeroIsRemove ==
    [][\A id \in CallIds, new_size \in NewSizes :
          (ModifyOrder(id, new_size) /\ id \in Resting(TheBook) /\ new_size <= 0)
              => Observable(order_books'[BTC])
                   = Observable(OrderBook_removeOrder(TheBook, id).book)]_vars

\* what a match of filled size f against maker id must leave
MatchOutcome(book, id, f, after) ==
    LET o == OrderOf(book, id) IN
    IF o.size - f > 0
    THEN /\ id \in Resting(after)
         /\ OrderOf(after, id) = [o EXCEPT !.size = o.size - f]
         /\ Observable(after) = Observable(OrderBook_modifyOrder(book, id, o.size - f).book)
    ELSE Observable(after) = Observable(OrderBook_removeOrder(book, id).book)

\* C7: a match of filled size f on a resting maker of size s leaves it with
\* size s - f when that is positive and removes it otherwise, through the
\* book's apply_l3 entry point as through the feed handler.
C7_MatchReducesMaker ==
    [][\A id \in CallIds, side \in OrderSide, price \in Prices, f \in Sizes :
          (ProcessL3Update("match", id, side, price, f) /\ id \in Resting(TheBook))
              => MatchOutcome(TheBook, id, f, order_books'[BTC])]_vars

\* the same through the feed handler's match frames
FeedMatchReducesMaker ==
    [][\A j \in MatchFrames :
          (HandleMatch(j) /\ Delivered(j) /\ j.maker_order_id \in Resting(TheBook))
              => MatchOutcome(TheBook, j.maker_order_id, j.size, order_books'[BTC])]_vars

\* the orders a snapshot lists
Listed(j) ==
    {Order(SnapshotOrderId(e.entry, e.side), e.side, stod(e.entry.price), e.entry.size) :
        e \in Range(SnapshotEntries(j))}

\* C8: after a snapshot frame the resting orders are exactly the listed ones.
C8_SnapshotReplacesBook ==
    [][\A j \in SnapshotFrames :
          (HandleSnapshot(j) /\ Delivered(j)
             /\ \A e \in Range(SnapshotEntries(j)) : ~e.entry.bad)
              => Range(Observable(order_books'[BTC]).orders) = Listed(j)]_vars

\* C10: a snapshot applied a second time changes nothing that can be
\* observed: for every book the feed can produce and every snapshot frame,
\* the book after the second application is the book after the first.
C10_SnapshotTwiceIsOnce ==
    \A j \in SnapshotFrames :
        LET once == CoinbaseHandler_handleMessage(order_books, j)
            twice == CoinbaseHandler_handleMessage(once, j)
        IN Observable(twice[BTC]) = Observable(once[BTC])

\* a snapshot has just been applied and its orders rest in the book
C10_Witness ==
    /\ last.op = "feed_snapshot" /\ last.ok
    /\ \E id \in Resting(TheBook) : id[1] \in {"bid", "ask"}
    /\ OrderBook_getOrderCount(TheBook) >= 2

\* C9: no query that runs while a snapshot is being applied returns a book
\* holding only part of the snapshot.
C9_SnapshotNeverSeenInPart == ~view.partial

\* C11: open(id, side, price, size) of an id that is not resting, followed by
\* done(id), leaves everything the book shows as it was, whatever side and
\* price the done event carries.
C11_OpenThenDoneRestores ==
    \A id \in OrderIds \ Resting(TheBook), side \in OrderSide, price \in Prices,
       size \in Sizes, done_side \in OrderSide, done_price \in Prices \cup {0} :
        Observable(OrderBook_processL3Update(
                       OrderBook_processL3Update(TheBook, "open", id, side, price, size),
                       "done", id, done_side, done_price, 0))
            = Observable(TheBook)

\* a done event has just removed an order and one order still rests
C11_Witness ==
    /\ last.op = "done" /\ last.ok
    /\ OrderBook_getOrderCount(TheBook) = 1
    /\ OrderIds \ Resting(TheBook) # {}

\* what an L2 change (side, price, size) must leave at its price
L2Outcome(after, side, change) ==
    LET p == stod(change.price) IN
    IF change.size = 0
    THEN /\ RestingAt(after, side, p) = {}
         /\ p \notin DOMAIN Levels(after, side)
    ELSE /\ RestingAt(after, side, p) \in {{L2OrderId(side, <<p, f>>)} : f \in Formats}
         /\ p \in DOMAIN Levels(after, side)
         /\ Levels(after, side)[p].total_size = change.size
         /\ \E i \in 1..Len(AllLevels(after, side)) :
               AllLevels(after, side)[i] = <<p, change.size>>

\* C12: an L2 change with size 0 leaves no order and no level at its price
\* on its side; any other change leaves there a single order, with the id
\* made from the side and the price, and a level of the change's size.
C12_L2ChangeReplacesLevel ==
    [][\A j \in L2Frames :
          (HandleL2Update(j) /\ Delivered(j) /\ Len(j.changes) = 1
             /\ ~j.changes[1].bad)
              => L2Outcome(order_books'[BTC], convertOrderSide(j.changes[1].side),
                           j.changes[1])]_vars

\* C13: a ticker frame changes nothing in the book of its symbol: the same
\* orders, levels and counts before and after.
C13_TickerLeavesBook ==
    [][\A j \in TickerFrames :
          HandleTicker(j) => Observable(order_books'[BTC]) = Observable(TheBook)]_vars

\* a frame with a field absent, a value that does not parse, or an array
\* element that does not parse
Defective(j) ==
    \/ j.missing # {}
    \/ j.malformed
    \/ j.type = "snapshot" /\ \E e \in Range(SnapshotEntries(j)) : e.entry.bad
    \/ j.type = "l2update" /\ \E i \in 1..Len(j.changes) : j.changes[i].bad

\* C14: a snapshot, l2update or L3 frame with a missing or unparsable field
\* or entry leaves the book as it was, also when the bad entry follows
\* well-formed ones.
C14_DefectiveFrameDropped ==
    [][/\ \A j \in L2SnapshotFrames :
            (HandleL2Snapshot(j) /\ Defective(j))
                => Observable(order_books'[BTC]) = Observable(TheBook)
       /\ \A j \in L2Frames :
            (HandleL2Update(j) /\ Defective(j))
                => Observable(order_books'[BTC]) = Observable(TheBook)
       /\ \A j \in DefectiveL3Frames :
            HandleDefective(j)
                => Observable(order_books'[BTC]) = Observable(TheBook)]_vars

\* C15: a call of add_order, remove_order, modify_order or apply_l3 runs the
\* update callback once when it changes what the book shows, and not at all
\* when it does not.
C15_CallbackOncePerChange ==
    [][Next => last'.notified
                 = (IF Observable(order_books'[BTC]) # Observable(TheBook)
                    THEN 1 ELSE 0)]_vars

\* the values of a frame agree with each other as the values of one state
\* of the book do
FrameConsistent(f) ==
    /\ f.best_bid = (IF f.bids = <<>> THEN 0 ELSE f.bids[1][1])
    /\ f.best_ask = (IF f.asks = <<>> THEN DBL_MAX ELSE f.asks[1][1])
    /\ f.spread = SpreadOf(f.best_bid, f.best_ask)
    /\ f.midpoint = MidpointOf(f.best_bid, f.best_ask)
    /\ Len(f.bids) = (IF f.bid_level_count < Depth THEN f.bid_level_count ELSE Depth)
    /\ Len(f.asks) = (IF f.ask_level_count < Depth THEN f.ask_level_count ELSE Depth)
    /\ f.order_count >= f.bid_level_count + f.ask_level_count

\* C16: the best bid, best ask, spread, midpoint, counts and levels of one
\* rendered frame are the values of one state of the book, however the
\* feed's frames fall between the reads.
C16_FrameFromOneState ==
    view.shown => FrameConsistent(view.frame)

\* C17: the frames of a session reach the handler in the order in which
\* they arrived: the arrival numbers of the frames handled so far increase.
C17_FramesAppliedInArrivalOrder ==
    \A a, b \in 1..Len(session.log) :
        a < b => session.log[a] < session.log[b]

\* two frames have been read whole and handed to the handler
C17_Witness ==
    /\ Len(session.log) >= 2
    /\ last.op = "read" /\ last.ok

\* C18: once a connection that was up has ended on a transport error, a
\* new connection attempt is made and the session is connected again.
C18_LostSessionReconnects ==
    (session.lost /\ session.io = "ended") ~> session.connected

\* the first subscription of a symbol on a connection that follows a lost
\* one, the symbol having a book from the earlier connection
Resubscription(symbol) ==
    /\ Subscribe(symbol) \/ (symbol = BTC /\ MainResubscribe)
    /\ session.lost /\ session.connected
    /\ symbol \notin session.subscribed
    /\ symbol \in DOMAIN order_books

\* C19: when a symbol is subscribed again after a reconnection, its book
\* holds no order from before the disconnect: it is empty from the
\* resubscription on, until frames of the new connection fill it.
C19_BookClearedOnResubscribe ==
    [][\A symbol \in ProductIds :
          Resubscription(symbol) => Resting(order_books'[symbol]) = {}]_vars

\* C20: after a reconnection a subscribe message goes out for every symbol
\* that was subscribed and not unsubscribed, whatever the caller does.
C20_SubscriptionsResent ==
    (session.lost /\ session.connected)
        ~> (~session.connected \/ DOMAIN order_books \subseteq session.subscribed)

C22_CloseIsTerminal ==
    session.main = "closed"
        => /\ session.io \notin {"connecting", "open", "callback"}
           /\ ~session.connected

\* C23: after subscribe of a symbol has returned the registry holds a book
\* for it, and after unsubscribe has returned it holds none, whether the
\* session is connected or not.
C23_BookWhileSubscribed ==
    [][\A symbol \in ProductIds :
          /\ Subscribe(symbol) => symbol \in DOMAIN order_books'
          /\ Unsubscribe(symbol) => symbol \notin DOMAIN order_books']_vars

\* C24: the book a reader holds a handle to exists for as long as the
\* reader holds the handle, whether or not its symbol has been
\* unsubscribed since, and the reader's queries of it are defined.
C24_HeldBookStaysValid ==
    /\ \A r \in Readers :
          view.handles[r] # NoHandle => view.handles[r] \in DOMAIN view.heap
    /\ last.op = "getOrderCount" => last.ok

\* a reader has queried a book that the registry no longer holds
C24_Witness ==
    /\ last = Call("getOrderCount", TRUE)
    /\ \E r \in Readers :
          /\ view.handles[r] # NoHandle
          /\ \A symbol \in DOMAIN order_books : order_books[symbol] # view.handles[r]

\* C25: queue_mutex_ is never held by a thread that cannot release it, so
\* a send() that waits for the mutex gets it.
C25_QueueMutexReleased ==
    view.mutex = "io" => view.io # "blocked"

\* C26: getBestBid returns the highest price of a resting buy order, or 0
\* when none rests, and getBestAsk the lowest price of a resting sell
\* order, or the maximum double when none rests.
C26_BestPrices ==
    /\ OrderBook_getBestBid(TheBook) =
          IF RestingPrices(TheBook, BUY) = {} THEN 0
          ELSE Max(RestingPrices(TheBook, BUY))
    /\ OrderBook_getBestAsk(TheBook) =
          IF RestingPrices(TheBook, SELL) = {} THEN DBL_MAX
          ELSE Min(RestingPrices(TheBook, SELL))

\* buy orders rest at two prices, after a call that changed the book
C26_Witness ==
    /\ Cardinality(RestingPrices(TheBook, BUY)) = 2
    /\ RestingPrices(TheBook, SELL) = {}
    /\ last.ok

\* C27: with orders on both sides getSpread returns best ask - best bid and
\* getMidpointPrice their mean (here in half ticks: their sum), for every
\* best bid >= 0; with a side empty both return 0.
C27_SpreadAndMidpoint ==
    LET bids == RestingPrices(TheBook, BUY)
        asks == RestingPrices(TheBook, SELL)
    IN IF bids # {} /\ asks # {}
       THEN /\ OrderBook_getSpread(TheBook) = Min(asks) - Max(bids)
            /\ OrderBook_getMidpointPrice(TheBook) = Max(bids) + Min(asks)
       ELSE /\ OrderBook_getSpread(TheBook) = 0
            /\ OrderBook_getMidpointPrice(TheBook) = 0

\* what getBidLevels or getAskLevels must return for a depth
LevelsAsClaimed(book, side, result, depth) ==
    LET prices == RestingPrices(book, side)
        shown == {result[i][1] : i \in 1..Len(result)}
        count == IF side = BUY THEN OrderBook_getBidLevelCount(book)
                 ELSE OrderBook_getAskLevelCount(book)
    IN /\ Len(result) = IF depth < count THEN depth ELSE count
       /\ shown \subseteq prices
       /\ \A i \in 1..Len(result) : \A j \in 1..Len(result) :
             i < j => IF side = BUY THEN result[i][1] > result[j][1]
                      ELSE result[i][1] < result[j][1]
       /\ \A q \in prices \ shown : \A i \in 1..Len(result) :
             IF side = BUY THEN q < result[i][1] ELSE q > result[i][1]
       /\ \A i \in 1..Len(result) :
             result[i][2] =
                SumSizes(book.heap,
                         {book.orders[id] : id \in RestingAt(book, side, result[i][1])})

\* C28: for every depth n getBidLevels(n) returns the min(n, level count)
\* highest bid levels, highest first, and getAskLevels(n) the lowest ask
\* levels, lowest first, each price once with the summed size of the
\* orders resting at it.
C28_LevelsInPriorityOrder ==
    \A depth \in Depths :
       /\ LevelsAsClaimed(TheBook, BUY, OrderBook_getBidLevels(TheBook, depth), depth)
       /\ LevelsAsClaimed(TheBook, SELL, OrderBook_getAskLevels(TheBook, depth), depth)

\* two bid levels, of which a depth of 1 shows the higher only
C28_Witness ==
    /\ OrderBook_getBidLevelCount(TheBook) = 2
    /\ Len(OrderBook_getBidLevels(TheBook, 1)) = 1
    /\ last.ok

\* a book without state, as its queries show it
Cleared(book, ids) ==
    /\ OrderBook_getOrderCount(book) = 0
    /\ OrderBook_getBidLevelCount(book) = 0
    /\ OrderBook_getAskLevelCount(book) = 0
    /\ OrderBook_getBestBid(book) = 0
    /\ OrderBook_getBestAsk(book) = DBL_MAX
    /\ \A id \in ids : OrderBook_getOrder(book, id) = NoOrder

\* a snapshot whose entries parse and name each order once
ListsEachOnce(j) ==
    /\ \A e \in Range(SnapshotEntries(j)) : ~e.entry.bad
    /\ \A o1 \in Listed(j) : \A o2 \in Listed(j) : o1.id = o2.id => o1 = o2

C30_MetricsOfEmptySide ==
    [][(/\ inflight.active
        /\ CalculateHFTMetrics(inflight.bids, inflight.asks)
        /\ (inflight.bids = <<>> \/ inflight.asks = <<>>))
          => view' = ConsoleVisualizer_calculateHFTMetrics(NoMetrics, inflight.bids,
                                                           inflight.asks)]_vars

\* the sums of the sizes of a level snapshot's two sides
TotalVolume(levels) == SumSeq([i \in 1..Len(levels) |-> levels[i][2]])

\* the imbalance and the pressure are as the table gives them for the sums
\* bid and ask: the imbalance is bid / ask (1.0 when ask is 0), and the
\* pressure p satisfies p * (imbalance + 1) = imbalance - 1 and lies in
\* [-1, 1]
ImbalanceAsTabled(m, bid, ask) ==
    LET imbalance == m.order_book_imbalance
        pressure == m.market_pressure
    IN /\ imbalance[2] > 0 /\ pressure[2] > 0
       /\ IF ask = 0 THEN imbalance = <<1, 1>>
          ELSE imbalance[1] * ask = bid * imbalance[2]
       /\ pressure[1] * (imbalance[1] + imbalance[2])
             = pressure[2] * (imbalance[1] - imbalance[2])
       /\ 0 - pressure[2] <= pressure[1] /\ pressure[1] <= pressure[2]

ReachedPrice(asks, total) ==
    LET reaching == {i \in 1..Len(asks) :
                        100 * SumSeq([k \in 1..i |-> asks[k][2]]) >= total}
    IN IF reaching = {} THEN asks[Len(asks)][1]
       ELSE asks[CHOOSE i \in reaching : \A k \in reaching : i <= k][1]

\* C32: for a snapshot with both sides non-empty the reported impact is
\* (reached_price - best_ask) / best_ask as a fraction, the reached price
\* being that of the first ask level, in ascending order, at which the
\* accumulated size is at least 1% of the size of both sides; it is 0
\* when the best ask level alone reaches that.
C32_ImpactAsFraction ==
    [][(/\ inflight.active
        /\ CalculateHFTMetrics(inflight.bids, inflight.asks)
        /\ inflight.bids # <<>> /\ inflight.asks # <<>>)
          => LET asks == inflight.asks
                 total == TotalVolume(inflight.bids) + TotalVolume(asks)
                 best_ask == asks[1][1]
             IN /\ view'.price_impact_1pct
                      = Frac(ReachedPrice(asks, total) - best_ask, best_ask)
                /\ 100 * asks[1][2] >= total
                      => view'.price_impact_1pct[1] = 0]_vars

\* C33: reduceSize(amount) fails and leaves the order as it was when
\* amount <= 0 or amount > size; otherwise it succeeds, the size goes down
\* by exactly amount and is not negative, and nothing else of the order
\* changes.
C33_ReduceSize ==
    [][\A amount \in Amounts :
          ReduceSize(amount)
             => IF amount <= 0 \/ amount > inflight.size
                THEN ~last'.ok /\ inflight' = inflight
                ELSE /\ last'.ok
                     /\ inflight'.size = inflight.size - amount
                     /\ inflight'.size >= 0
                     /\ inflight' = [inflight EXCEPT !.size = inflight'.size]]_vars

\* an order has been reduced by its whole size
C33_Witness ==
    /\ last = Call("reduceSize", TRUE)
    /\ inflight.size = 0

\* what the level's getters show: its orders, their number and its total
LevelShown(v) ==
    [orders |-> [id \in DOMAIN v.level.orders |-> v.heap[v.level.orders[id]]],
     count |-> Cardinality(DOMAIN v.level.orders),
     total_size |-> v.level.total_size]

\* C34: addOrder fails when the order's price is not the level's or its
\* id is already in the level, removeOrder and updateOrder fail when the
\* id is not in the level, and every failing call leaves the level's
\* orders, count and total size as they were.
C34_FailingLevelCalls ==
    [][/\ last'.op = "PriceLevel::addOrder" =>
            \A id \in OrderIds, side \in OrderSide, price \in Prices, size \in NewSizes :
               (/\ price # view.level.price \/ id \in DOMAIN view.level.orders
                /\ LevelAddOrder(id, side, price, size))
                  => ~last'.ok
       /\ last'.op = "PriceLevel::removeOrder" =>
            \A order_id \in OrderIds \ DOMAIN view.level.orders :
               LevelRemoveOrder(order_id) => ~last'.ok
       /\ last'.op = "PriceLevel::updateOrder" =>
            \A order_id \in OrderIds \ DOMAIN view.level.orders, new_size \in NewSizes :
               LevelUpdateOrder(order_id, new_size) => ~last'.ok
       /\ (last'.op # "reduceSize" /\ ~last'.ok) => LevelShown(view') = LevelShown(view)]_vars

\* an addOrder has failed on a level that holds an order
C34_Witness ==
    /\ last = Call("PriceLevel::addOrder", FALSE)
    /\ view.level.orders # <<>>

\* C35: a heartbeat, error or subscriptions message, a message of a type
\* the handler does not know, and a match whose maker id rests in no book
\* leave every book as it was; so does processL3Update with an event type
\* it does not know, on every book the feed can build.
C35_NoBookMutation ==
    /\ [](\A id \in CallIds, side \in OrderSide, price \in Prices, size \in NewSizes :
            OrderBook_processL3Update(TheBook, "other", id, side, price, size) = TheBook)
    /\ [][/\ (\E type \in OtherTypes : HandleOther(type, BTC)) => order_books' = order_books
          /\ (last'.op = "feed_match" /\ ~last'.ok) => order_books' = order_books]_vars

\* a message of a type that mutates nothing has been handled while orders
\* rest in the book
C35_Witness ==
    /\ last = Call("feed_other", FALSE)
    /\ Resting(TheBook) # {}

\* C36: what getSpread or getMidpointPrice returns while another thread
\* mutates the book is what the getter gives on one of the states the book
\* has had during the call.
C36_GetterReadsOneState ==
    [][GetterReturn => view'.result \in view.seen]_vars

\* C37: handling a frame for symbol S leaves the book of every other
\* symbol as it was and registers no book; with no book registered for S
\* it leaves every book as it was.
C37_OtherBooksUntouched ==
    [][\A j \in ProductFrames :
          ProductFrame(j)
             => LET after == CoinbaseHandler_handleMessage(Registered, j)
                IN /\ DOMAIN after = DOMAIN Registered
                   /\ \A symbol \in DOMAIN Registered \ {j.product_id} :
                         after[symbol] = Registered[symbol]
                   /\ \A symbol \in DOMAIN Registered \ {j.product_id} :
                         Registered'[symbol] = Registered[symbol]
                   /\ j.product_id \notin DOMAIN Registered => view' = view]_vars

\* a done frame for a registered symbol has been handled while books are
\* registered for both symbols and one of them holds an order
C37_Witness ==
    /\ last = Call("done", TRUE)
    /\ DOMAIN order_books = ProductIds
    /\ \E symbol \in ProductIds : Resting(Registered[symbol]) # {}

\* no connection is up and none has ended since connect or disconnect was
\* called last: the handshake is still to come or under way
BeforeHandshake ==
    ~session.connected /\ session.io \in {"none", "connecting"}

C39_AcceptedMessageGetsWritten ==
    (session.connected /\ session.running /\ view.queue # <<>>)
       => view.io \in {"run", "nested"}

\* the callback runs with the mutex held by the thread that called the
\* book, and no other thread reads the book from the mutation to the end
\* of the callback
CallbackUnderMutex ==
    /\ view.pc \in {"callback", "blocked"} => view.mutex = "writer"
    /\ ObserverRead => view.pc = "idle"

\* C40 as stated: the callback runs with the mutex held, no other thread
\* reads the book from the mutation to the end of the callback, and a
\* callback that calls a locking operation of the book never ends.
C40_ReenteringCallbackNeverReturns ==
    [][/\ CallbackUnderMutex
       /\ (view.pc = "callback" /\ view.callback = "reenters") => view'.pc # "idle"
       /\ view.pc = "blocked" => view'.pc = "blocked"]_vars

\* C40 amended: the callback runs with the mutex held, no other thread
\* reads the book from the mutation to the end of the callback, and the
\* locking operation a callback calls never completes: the thread waits
\* for ever with the mutex held, or the operation fails with an exception.
C40_CallbackUnderMutex ==
    [][/\ CallbackUnderMutex
       /\ (view.pc = "callback" /\ view.callback = "reenters")
            => \/ view'.pc = "blocked" /\ view'.mutex = "writer"
               \/ last' = Call("relock", FALSE) /\ view'.seen = view.seen
       /\ view.pc = "blocked"
            => view'.pc = "blocked" /\ view'.mutex = "writer" /\ view'.seen = view.seen]_vars

\* a callback that called getOrderCount waits for the mutex its thread
\* holds, the book holding an order the other thread has not seen
C40_Witness ==
    /\ view.pc = "blocked"
    /\ OrderBook_getOrderCount(TheBook) # view.seen

====
